---------------------------- MODULE Spec2Model ----------------------------
(***************************************************************************)
(* A model of the wario interpreter core: Machine::invoke of src/vm.rs,    *)
(* with Func::call and ExternFunction::call.  The recursion of invoke over *)
(* nested bodies is unfolded into a sequence of activation records         *)
(* (frames), one per active invoke, so that every instruction arm and      *)
(* every return of a nested invoke to its caller is one step.              *)
(***************************************************************************)
EXTENDS Integers, Sequences, FiniteSets, TLC

(***************************************************************************)
(* i32 values.  TLC's integers are themselves 32 bits wide, so the       *)
(* wrapped results are computed without ever leaving the i32 range.        *)
(***************************************************************************)
MaxI32 == 2147483647

MinI32 == (-MaxI32) - 1

Half == 65536

\* The i32 whose two's-complement bit pattern has the 16-bit halves hi, lo.
FromHalves(hi, lo) == (IF hi >= 32768 THEN hi - Half ELSE hi) * Half + lo

\* The 16-bit halves of the bit pattern of the i32 a.
HiHalf(a) == (a \div Half) % Half

LoHalf(a) == a % Half

\* Whether the mathematical sum a + b lies outside the i32 range.
AddOverflows(a, b) == IF b >= 0 THEN a > MaxI32 - b ELSE a < MinI32 - b

\* a + b reduced modulo 2^32 into the i32 range (i32::wrapping_add).
WrappingAdd(a, b) ==
    IF ~AddOverflows(a, b) THEN a + b
    ELSE IF b >= 0 THEN ((a - MaxI32) + (b - MaxI32)) - 2
    ELSE ((a + MaxI32) + (b + MaxI32)) + 2

\* Whether the mathematical difference a - b lies outside the i32 range.
SubOverflows(a, b) == IF b >= 0 THEN a < MinI32 + b ELSE a > MaxI32 + b

\* a - b reduced modulo 2^32 into the i32 range (i32::wrapping_sub).
WrappingSub(a, b) ==
    IF ~SubOverflows(a, b) THEN a - b
    ELSE IF b >= 0 THEN ((a + MaxI32) - (b - MaxI32)) + 2
    ELSE ((a - MaxI32) - (b + MaxI32)) - 2

Abs(a) == IF a < 0 THEN -a ELSE a

\* Whether the mathematical product a * b lies outside the i32 range.
MulOverflows(a, b) ==
    IF a = 0 \/ b = 0 THEN FALSE
    ELSE IF a = MinI32 THEN b # 1
    ELSE IF b = MinI32 THEN a # 1
    ELSE IF (a < 0) = (b < 0) THEN Abs(a) > MaxI32 \div Abs(b)
    ELSE Abs(a) - (IF MaxI32 % Abs(b) = Abs(b) - 1 THEN 1 ELSE 0)
             > MaxI32 \div Abs(b)

\* The product of two 16-bit naturals, as the 16-bit halves of its 32 bits.
U16Mul(x, y) ==
    LET p0 == (x % 256) * y
        p1 == (x \div 256) * y
        lo == (p1 % 256) * 256 + (p0 % Half)
    IN  [hi |-> ((p1 \div 256) + (p0 \div Half) + (lo \div Half)) % Half,
         lo |-> lo % Half]

\* a * b reduced modulo 2^32 into the i32 range (i32::wrapping_mul).
WrappingMul(a, b) ==
    LET ll == U16Mul(LoHalf(a), LoHalf(b))
        cross == U16Mul(HiHalf(a), LoHalf(b)).lo + U16Mul(LoHalf(a), HiHalf(b)).lo
    IN  FromHalves((ll.hi + cross) % Half, ll.lo)

(***************************************************************************)
(* Instructions (wasm::Instruction).  arg is the immediate (constant, cell *)
(* offset, local, function or label index), align the MemArg alignment and *)
(* body the nested body of a Block or Loop.                                *)
(***************************************************************************)
Instr(op, arg, body) == [op |-> op, arg |-> arg, align |-> 0, body |-> body]

I32Const(value) == Instr("I32Const", value, <<>>)

MemArg(ins, align) == [ins EXCEPT !.align = align]

I32Load(offset) == Instr("I32Load", offset, <<>>)

I32Store(offset) == Instr("I32Store", offset, <<>>)

I32Add == Instr("I32Add", 0, <<>>)

I32Sub == Instr("I32Sub", 0, <<>>)

I32Mul == Instr("I32Mul", 0, <<>>)

I32Eq == Instr("I32Eq", 0, <<>>)

LocalGet(address) == Instr("LocalGet", address, <<>>)

Call(function_index) == Instr("Call", function_index, <<>>)

Return == Instr("Return", 0, <<>>)

Branch(level) == Instr("Branch", level, <<>>)

BranchIf(level) == Instr("BranchIf", level, <<>>)

Block(block_code) == Instr("Block", 0, block_code)

Loop(loop_code) == Instr("Loop", 0, loop_code)

\* An instruction of wasm::Instruction that invoke has no arm for.
Unreachable == Instr("Unreachable", 0, <<>>)

\* Instruction::If(block type, then-body, else-body): invoke has no arm for
\* it either.
If(then_code, else_code) ==
    [op |-> "If", arg |-> 0, align |-> 0, body |-> then_code,
     else_body |-> else_code]

\* The instructions Machine::invoke has an arm for.
SupportedOps ==
    {"I32Const", "I32Load", "I32Store", "I32Add", "I32Sub", "I32Mul", "I32Eq",
     "LocalGet", "Call", "Return", "Branch", "BranchIf", "Block", "Loop"}

(***************************************************************************)
(* Option<ControlFlow>, the result of an invoke; CfExec marks an invoke    *)
(* that is still inside its for loop.                                      *)
(***************************************************************************)
CfExec == [t |-> "Exec", n |-> 0]

CfNone == [t |-> "None", n |-> 0]

CfReturn == [t |-> "Return", n |-> 0]

CfBranch(level) == [t |-> "Branch", n |-> level]

\* A module function (wasm Func): parameter count of its type, the number
\* of locals its Code declares, and its body.
Func(param_count, local_count, body) ==
    [param_count |-> param_count, local_count |-> local_count, body |-> body]

\* A host function: its param_count and the behaviour of its callback.
ExternFunction(param_count, fun) == [param_count |-> param_count, fun |-> fun]

(***************************************************************************)
(* State.  stack and memory are the fields of Machine.  frames holds one   *)
(* record per active invoke, outermost first: its code, the position pc of *)
(* its for loop, its locals and how it was started ("Invoke" by the        *)
(* caller of the machine, "Block" and "Loop" by those arms, "Call" by      *)
(* Func::call).  flow is CfExec while the innermost invoke runs and its    *)
(* returned value once it has returned and its caller has not yet looked   *)
(* at it.  status is "running", "done" once the outermost invoke has       *)
(* returned (result is then its value) and "panic" after a panic.          *)
(* host_calls lists the callback invocations made so far.  code,           *)
(* module_functions, extern_functions and locals are the arguments of the  *)
(* outermost invoke and init_stack the stack its caller seeded;            *)
(* overflow_checks is the build's setting of integer overflow checks (on   *)
(* in debug builds, off in release builds).  steps counts the steps taken, *)
(* to bound the exploration, and before is the machine as it was before    *)
(* the last step (a history variable: the properties of single steps       *)
(* relate it to the machine after the step).                               *)
(***************************************************************************)
VARIABLES stack, memory, frames, flow, status, result, host_calls,
          code, module_functions, extern_functions, locals, init_stack,
          overflow_checks, steps, before

\* The decoder of src/parser.rs: the bytes of the file, the cursor of the
\* file, the sections parse_sections has collected, what the decoder has
\* returned so far (r tells how far it is), and the span of the section
\* parsed last (a history variable).
VARIABLES file, stream_position, sections, parsed, last_section

decoder_vars == <<file, stream_position, sections, parsed, last_section>>

vars == <<stack, memory, frames, flow, status, result, host_calls,
          code, module_functions, extern_functions, locals, init_stack,
          overflow_checks, steps, before, decoder_vars>>

\* Machine::new: the memory size.
MemorySize == 10

\* The machine as one value.
Machine ==
    [stack |-> stack, memory |-> memory, frames |-> frames, flow |-> flow,
     status |-> status, result |-> result, host_calls |-> host_calls]

Frame(body, frame_locals, kind) ==
    [code |-> body, pc |-> 1, locals |-> frame_locals, kind |-> kind]

\* The machine at the start of invoke(body, .., frame_locals) on the given
\* stack and memory.
Start(body, seed, init_memory, frame_locals) ==
    [stack |-> seed, memory |-> init_memory,
     frames |-> <<Frame(body, frame_locals, "Invoke")>>, flow |-> CfExec,
     status |-> "running", result |-> CfNone, host_calls |-> <<>>]

Top(m) == m.frames[Len(m.frames)]

\* The innermost invoke is inside its for loop with an instruction left.
AtInstruction(m) ==
    /\ m.status = "running"
    /\ m.flow = CfExec
    /\ Top(m).pc <= Len(Top(m).code)

Current(m) == Top(m).code[Top(m).pc]

Pop(seq) == SubSeq(seq, 1, Len(seq) - 1)

Last(seq) == seq[Len(seq)]

\* The for loop of the innermost invoke moves to its next instruction.
Advance(m) == [m EXCEPT !.frames[Len(m.frames)].pc = @ + 1]

Panic(m) == [m EXCEPT !.status = "panic"]

\* The innermost invoke returns control_flow.
ReturnFrom(m, control_flow) == [m EXCEPT !.flow = control_flow]

Push(m, value) == [m EXCEPT !.stack = Append(@, value)]

(***************************************************************************)
(* The arms of the match in Machine::invoke, each a function of the        *)
(* machine at an instruction of that kind.                                 *)
(***************************************************************************)
OnI32Const(m) == Advance(Push(m, Current(m).arg))

\* An I32Load arm that reads the cell at offset + align.
LoadAtAlignedOffset(m) ==
    IF Current(m).arg + Current(m).align < Len(m.memory)
    THEN Advance(Push(m, m.memory[Current(m).arg + Current(m).align + 1]))
    ELSE Panic(m)

\* self.memory[memarg.offset]: an index past the memory panics.
OnI32Load(m) ==
    IF Current(m).arg < Len(m.memory)
    THEN Advance(Push(m, m.memory[Current(m).arg + 1]))
    ELSE Panic(m)

\* An I32Store arm that pushes the value onto the end of the memory.
StoreAppends(m) ==
    IF m.stack = <<>> THEN Panic(m)
    ELSE Advance([m EXCEPT !.stack = Pop(@), !.memory = Append(@, Last(m.stack))])

\* self.memory[memarg.offset] = self.stack.pop().unwrap()
OnI32Store(m) ==
    IF m.stack = <<>> THEN Panic(m)
    ELSE IF Current(m).arg >= Len(m.memory)
    THEN Panic([m EXCEPT !.stack = Pop(@)])
    ELSE Advance([m EXCEPT !.stack = Pop(@),
                           !.memory[Current(m).arg + 1] = Last(m.stack)])

\* let right = self.stack.pop().unwrap()
Right(m) == m.stack[Len(m.stack)]

\* The top of the stack taken as the left operand too.
TopAsLeft(m) == m.stack[Len(m.stack)]

\* let left = self.stack.pop().unwrap()
Left(m) == m.stack[Len(m.stack) - 1]

\* pop right, pop left, push value; with overflow checks compiled in, an
\* operation that overflows panics instead.
BinaryArm(m, overflows, value) ==
    IF m.stack = <<>> THEN Panic(m)
    ELSE IF Len(m.stack) = 1 THEN Panic([m EXCEPT !.stack = <<>>])
    ELSE LET popped == [m EXCEPT !.stack = SubSeq(@, 1, Len(@) - 2)]
         IN  IF overflow_checks /\ overflows THEN Panic(popped)
             ELSE Advance(Push(popped, value))

\* self.stack.push(left + right)
OnI32Add(m) ==
    BinaryArm(m, AddOverflows(Left(m), Right(m)), WrappingAdd(Left(m), Right(m)))

\* self.stack.push(left - right)
OnI32Sub(m) ==
    BinaryArm(m, SubOverflows(Left(m), Right(m)), WrappingSub(Left(m), Right(m)))

\* self.stack.push(left * right)
OnI32Mul(m) ==
    BinaryArm(m, MulOverflows(Left(m), Right(m)), WrappingMul(Left(m), Right(m)))

\* (left == right) as i32
EqAsI32(left, right) == IF left = right THEN 1 ELSE 0

OnI32Eq(m) == BinaryArm(m, FALSE, EqAsI32(Left(m), Right(m)))

\* A LocalGet arm that reads 0 from a local that does not exist.
LocalGetDefaultsToZero(m) ==
    IF Current(m).arg < Len(Top(m).locals)
    THEN Advance(Push(m, Top(m).locals[Current(m).arg + 1]))
    ELSE Advance(Push(m, 0))

\* locals[*address]
OnLocalGet(m) ==
    IF Current(m).arg < Len(Top(m).locals)
    THEN Advance(Push(m, Top(m).locals[Current(m).arg + 1]))
    ELSE Panic(m)

\* The value a host callback returns for args: [some, value, panic].
\* "none" returns None, "sub" is |args| Some(args[0] - args[1]), "answer"
\* returns Some(42) whatever its arguments.
CallbackResult(fun, args) ==
    CASE fun = "sub" ->
           IF Len(args) < 2 \/ (overflow_checks /\ SubOverflows(args[1], args[2]))
           THEN [some |-> FALSE, value |-> 0, panic |-> TRUE]
           ELSE [some |-> TRUE, value |-> WrappingSub(args[1], args[2]),
                 panic |-> FALSE]
      [] fun = "answer" -> [some |-> TRUE, value |-> 42, panic |-> FALSE]
      [] OTHER -> [some |-> FALSE, value |-> 0, panic |-> FALSE]

\* The last n values of the stack, deepest first: what split_off returns.
SplitOff(seq, n) == SubSeq(seq, Len(seq) - n + 1, Len(seq))

\* What split_off leaves in the vector.
SplitOffRest(seq, n) == SubSeq(seq, 1, Len(seq) - n)

Reverse(seq) == [i \in 1..Len(seq) |-> seq[Len(seq) + 1 - i]]

\* A Func::call that pops its arguments one by one into the locals, the
\* top of the stack first.
FuncCallPopOrder(m, func) ==
    IF Len(m.stack) < func.param_count THEN Panic(m)
    ELSE [m EXCEPT !.stack = SplitOffRest(@, func.param_count),
                   !.frames = Append(@, Frame(func.body,
                         Reverse(SplitOff(m.stack, func.param_count)), "Call"))]

\* Func::call: the arguments leave the stack and become the locals of a
\* new invoke of the function's body.
FuncCall(m, func) ==
    IF Len(m.stack) < func.param_count THEN Panic(m)
    ELSE [m EXCEPT !.stack = SplitOffRest(@, func.param_count),
                   !.frames = Append(@, Frame(func.body,
                                  SplitOff(m.stack, func.param_count), "Call"))]

\* An ExternFunction::call that pops its arguments one by one, the top of
\* the stack first.
ExternFunctionCallPopOrder(m, index) ==
    LET extern == extern_functions[index + 1]
        args == Reverse(SplitOff(m.stack, extern.param_count))
        returned == CallbackResult(extern.fun, args)
        called == [m EXCEPT !.stack = SplitOffRest(@, extern.param_count),
                            !.host_calls = Append(@, [index |-> index,
                                                      args |-> args])]
    IN  IF Len(m.stack) < extern.param_count THEN Panic(m)
        ELSE IF returned.panic THEN Panic(called)
        ELSE IF returned.some THEN Advance(Push(called, returned.value))
        ELSE Advance(called)

\* ExternFunction::call: the arguments leave the stack, the callback runs
\* on them and its value, if any, is pushed.
ExternFunctionCall(m, index) ==
    LET extern == extern_functions[index + 1]
        args == SplitOff(m.stack, extern.param_count)
        returned == CallbackResult(extern.fun, args)
        called == [m EXCEPT !.stack = SplitOffRest(@, extern.param_count),
                            !.host_calls = Append(@, [index |-> index,
                                                      args |-> args])]
    IN  IF Len(m.stack) < extern.param_count THEN Panic(m)
        ELSE IF returned.panic THEN Panic(called)
        ELSE IF returned.some THEN Advance(Push(called, returned.value))
        ELSE Advance(called)

\* A function index below module_functions.len() is a module function.
IsModuleCall(m) == Current(m).arg < Len(module_functions)

OnCallModule(m) == FuncCall(m, module_functions[Current(m).arg + 1])

\* A Call arm that uses the function index as it is for the host table.
CallExternSameIndex(m) ==
    LET function_index == Current(m).arg
    IN  IF function_index < Len(extern_functions)
        THEN ExternFunctionCall(m, function_index)
        ELSE Panic(m)

OnCallExtern(m) ==
    LET function_index == Current(m).arg - Len(module_functions)
    IN  IF function_index < Len(extern_functions)
        THEN ExternFunctionCall(m, function_index)
        ELSE Panic(m)

\* A Return arm that goes on with the next instruction of the body.
ReturnGoesOn(m) == Advance(m)

OnReturn(m) == ReturnFrom(m, CfReturn)

OnBranch(m) == ReturnFrom(m, CfBranch(Current(m).arg))

\* A BranchIf arm that leaves a zero condition on the stack.
BranchIfKeepsZero(m) ==
    IF m.stack = <<>> THEN Panic(m)
    ELSE IF Last(m.stack) # 0
         THEN ReturnFrom([m EXCEPT !.stack = Pop(@)], CfBranch(Current(m).arg))
         ELSE Advance(m)

OnBranchIf(m) ==
    IF m.stack = <<>> THEN Panic(m)
    ELSE LET condition == Last(m.stack)
             popped == [m EXCEPT !.stack = Pop(@)]
         IN  IF condition # 0
             THEN ReturnFrom(popped, CfBranch(Current(m).arg))
             ELSE Advance(popped)

\* self.invoke(block_code, ..., locals)
OnBlock(m) ==
    [m EXCEPT !.frames = Append(@, Frame(Current(m).body, Top(m).locals, "Block"))]

\* loop { self.invoke(loop_code, ..., locals) ... }
OnLoop(m) ==
    [m EXCEPT !.frames = Append(@, Frame(Current(m).body, Top(m).locals, "Loop"))]

\* _ => panic!("Unsupported instruction encountered")
OnUnsupported(m) == Panic(m)

\* An invoke that returns Return when its for loop is over.
BodyEndReturnsReturn(m) == ReturnFrom(m, CfReturn)

\* The for loop of the innermost invoke is over: invoke returns None.
OnBodyEnd(m) == ReturnFrom(m, CfNone)

(***************************************************************************)
(* What the caller of a nested invoke does with the value it returns.      *)
(***************************************************************************)
\* The caller's frames, with the returned invoke's frame gone.
Caller(m) == [m EXCEPT !.frames = Pop(@)]

\* The caller goes on with the instruction after the one that invoked.
Continue(m) == Advance([Caller(m) EXCEPT !.flow = CfExec])

\* A Block arm that hands a branch on without taking off its own level.
BlockResultKeepsLevel(m) ==
    CASE m.flow = CfNone -> Continue(m)
      [] m.flow = CfReturn -> ReturnFrom(Caller(m), CfReturn)
      [] OTHER -> IF m.flow.n > 0
                  THEN ReturnFrom(Caller(m), CfBranch(m.flow.n))
                  ELSE Continue(m)

\* A Block arm that takes two levels off a branch that has two or more.
BlockResultTakesTwoLevels(m) ==
    CASE m.flow = CfNone -> Continue(m)
      [] m.flow = CfReturn -> ReturnFrom(Caller(m), CfReturn)
      [] OTHER -> IF m.flow.n > 0
                  THEN ReturnFrom(Caller(m),
                                  CfBranch(IF m.flow.n > 1 THEN m.flow.n - 2 ELSE 0))
                  ELSE Continue(m)

\* The Block arm's match on the value of self.invoke(block_code, ...).
OnBlockResult(m) ==
    CASE m.flow = CfNone -> Continue(m)
      [] m.flow = CfReturn -> ReturnFrom(Caller(m), CfReturn)
      [] OTHER -> IF m.flow.n > 0
                  THEN ReturnFrom(Caller(m), CfBranch(m.flow.n - 1))
                  ELSE Continue(m)

\* The loop runs its body again.
Iterate(m) == [m EXCEPT !.frames[Len(m.frames)].pc = 1, !.flow = CfExec]

\* A Loop arm that treats Branch(0) as a Block does: the loop is left.
LoopResultBreaksOnZero(m) ==
    CASE m.flow = CfNone -> Iterate(m)
      [] m.flow = CfReturn -> ReturnFrom(Caller(m), CfReturn)
      [] OTHER -> IF m.flow.n > 0
                  THEN ReturnFrom(Caller(m), CfBranch(m.flow.n - 1))
                  ELSE Continue(m)

\* A Loop arm that leaves the loop when its body runs to the end.
LoopRunsOnce(m) ==
    CASE m.flow = CfNone -> Continue(m)
      [] m.flow = CfReturn -> ReturnFrom(Caller(m), CfReturn)
      [] OTHER -> IF m.flow.n > 0
                  THEN ReturnFrom(Caller(m), CfBranch(m.flow.n - 1))
                  ELSE Iterate(m)

\* The Loop arm's match on the value of self.invoke(loop_code, ...).
OnLoopResult(m) ==
    CASE m.flow = CfNone -> Iterate(m)
      [] m.flow = CfReturn -> ReturnFrom(Caller(m), CfReturn)
      [] OTHER -> IF m.flow.n > 0
                  THEN ReturnFrom(Caller(m), CfBranch(m.flow.n - 1))
                  ELSE Iterate(m)

\* A call that hands the callee's Return on to the caller's body.
CallResultPropagatesReturn(m) ==
    IF m.flow = CfReturn THEN ReturnFrom(Caller(m), CfReturn) ELSE Continue(m)

\* A call whose callee ran on the caller's locals vector and left its
\* arguments there.
CallResultLeavesArguments(m) ==
    [Continue(m) EXCEPT !.frames[Len(m.frames) - 1].locals = Top(m).locals]

\* A Func::call that takes the top value off the stack when the body of
\* the function ended by Return.
CallResultDropsOnReturn(m) ==
    IF m.flow = CfReturn THEN Continue([m EXCEPT !.stack = Pop(@)])
    ELSE Continue(m)

\* Func::call drops the value of machine.invoke(&self.code.body, ...).
OnCallResult(m) == Continue(m)

\* The outermost invoke returns to the caller of the machine.
OnInvokeResult(m) ==
    [m EXCEPT !.frames = <<>>, !.status = "done", !.result = m.flow,
              !.flow = CfExec]

\* The innermost invoke has returned and was started as kind.
Returned(m, kind) ==
    /\ m.status = "running"
    /\ m.flow # CfExec
    /\ Top(m).kind = kind

(***************************************************************************)
(* One step of a running machine: the for loop and match of invoke, and    *)
(* the return of a nested invoke to the arm that started it.               *)
(***************************************************************************)
Step(m) ==
    IF m.flow # CfExec
    THEN CASE Top(m).kind = "Block" -> OnBlockResult(m)
           [] Top(m).kind = "Loop" -> OnLoopResult(m)
           [] Top(m).kind = "Call" -> OnCallResult(m)
           [] OTHER -> OnInvokeResult(m)
    ELSE IF Top(m).pc > Len(Top(m).code) THEN OnBodyEnd(m)
    ELSE CASE Current(m).op = "I32Const" -> OnI32Const(m)
           [] Current(m).op = "I32Load" -> OnI32Load(m)
           [] Current(m).op = "I32Store" -> OnI32Store(m)
           [] Current(m).op = "I32Add" -> OnI32Add(m)
           [] Current(m).op = "I32Sub" -> OnI32Sub(m)
           [] Current(m).op = "I32Mul" -> OnI32Mul(m)
           [] Current(m).op = "I32Eq" -> OnI32Eq(m)
           [] Current(m).op = "LocalGet" -> OnLocalGet(m)
           [] Current(m).op = "Call" ->
                IF IsModuleCall(m) THEN OnCallModule(m) ELSE OnCallExtern(m)
           [] Current(m).op = "Return" -> OnReturn(m)
           [] Current(m).op = "Branch" -> OnBranch(m)
           [] Current(m).op = "BranchIf" -> OnBranchIf(m)
           [] Current(m).op = "Block" -> OnBlock(m)
           [] Current(m).op = "Loop" -> OnLoop(m)
           [] OTHER -> OnUnsupported(m)

\* The machine after at most fuel steps, or when it has stopped.
RECURSIVE Run(_, _)
Run(m, fuel) ==
    IF fuel = 0 \/ m.status # "running" THEN m ELSE Run(Step(m), fuel - 1)

(***************************************************************************)
(* Inputs.                                                                 *)
(***************************************************************************)
MaxSteps == 64

\* Deepest nesting of Blocks and Loops around a Branch.
MaxNesting == 3

\* Longest body enumerated.
MaxLen == 2

\* Highest initial operand stack enumerated.
MaxInitStack == 2

\* Highest label index in the bodies of called functions.
MaxLabel == 2

\* Highest param_count of the called functions.
MaxParams == 2

\* Highest bound of the counting loop.
MaxCount == 4

SeqsUpTo(S, n) == UNION {[1..k -> S] : k \in 0..n}

\* Machine::new: memory: vec![0; 10]
ZeroMemory == [cell \in 1..MemorySize |-> 0]

StackValues == {0, 1, MaxI32}

InitStacks == SeqsUpTo(StackValues, MaxInitStack)

\* The functions of the tests call_module_function(_with_args).
AnswerFunc == Func(0, 0, <<I32Const(42)>>)

SubFunc == Func(2, 0, <<LocalGet(0), LocalGet(1), I32Sub>>)

DefaultFuncs == <<AnswerFunc, SubFunc>>

\* The host functions of the tests call_extern_function(_with_args).
DefaultExterns == <<ExternFunction(0, "none"), ExternFunction(2, "sub")>>

DefaultLocals == <<42, 7>>

\* An input of the machine: the arguments of invoke, the stack the caller
\* seeded and the overflow-check settings of the builds considered.
Input(body, seed, funcs, externs, builds) ==
    [code |-> body, stack |-> seed, module_functions |-> funcs,
     extern_functions |-> externs, builds |-> builds]

\* Instructions without a nested body, with operands in range.
Atoms ==
    {I32Const(1), I32Const(MinI32), I32Load(0), I32Store(0), I32Add, I32Sub,
     I32Mul, I32Eq, LocalGet(0), Call(1), Call(3), Return, Branch(0),
     BranchIf(0), BranchIf(1)}

\* Instructions whose operand is out of range or that invoke has no arm
\* for, and the calls without arguments.
OtherAtoms ==
    {I32Load(MemorySize), I32Store(MemorySize), LocalGet(2), Call(0), Call(2),
     Call(4), Unreachable, If(<<Branch(1)>>, <<I32Const(2)>>)}

\* Straight-line bodies on an empty stack and on the operands of the tests,
\* and every single instruction on every initial stack.
StraightInputs ==
    {Input(body, seed, DefaultFuncs, DefaultExterns, BOOLEAN) :
        body \in SeqsUpTo(Atoms, MaxLen), seed \in {<<>>, <<5, 3>>}}
    \cup
    {Input(<<atom>>, seed, DefaultFuncs, DefaultExterns, BOOLEAN) :
        atom \in Atoms \cup OtherAtoms, seed \in InitStacks}

\* Bodies nested two deep: a control instruction followed by a push.
InnerBodies ==
    {<<>>} \cup {<<atom, I32Const(44)>> :
                    atom \in {Return, Branch(1), Branch(2)}}

ControlAlphabet ==
    {I32Const(0), I32Const(43), Return, Branch(0), Branch(1), BranchIf(0)}
    \cup {Block(body) : body \in InnerBodies}
    \cup {Loop(body) : body \in InnerBodies}

\* The shape of the tests nested_break_*: a Block or Loop between two pushes.
ControlInputs ==
    {Input(<<I32Const(42), nested, I32Const(45)>>, <<>>, DefaultFuncs,
           DefaultExterns, {TRUE}) :
        nested \in {Block(body) : body \in SeqsUpTo(ControlAlphabet, MaxLen)}
                   \cup {Loop(body) : body \in SeqsUpTo(ControlAlphabet, MaxLen)}}

\* Bodies of called functions, ending in every kind of control flow.
CalleeBodies ==
    {<<>>, <<I32Const(42)>>, <<LocalGet(0), LocalGet(1), I32Sub>>,
     <<LocalGet(0), Return, I32Const(9)>>}
    \cup {<<I32Const(7), Branch(level), I32Const(9)>> : level \in 0..MaxLabel}
    \cup {<<Block(<<Branch(level)>>), I32Const(8)>> : level \in 0..MaxLabel}

Funcs ==
    {Func(param_count, 0, body) :
        param_count \in 0..MaxParams, body \in CalleeBodies}

Externs ==
    {ExternFunction(param_count, fun) :
        param_count \in 0..MaxParams, fun \in {"none", "sub", "answer"}}

\* Function tables: the called function alone or after another one.
Tables ==
    {<<funcs, DefaultExterns>> :
        funcs \in {<<>>} \cup {<<func>> : func \in Funcs}
                  \cup {<<AnswerFunc, func>> : func \in Funcs}}
    \cup
    {<<funcs, externs>> :
        funcs \in {<<>>, <<AnswerFunc>>},
        externs \in {<<>>} \cup {<<extern>> : extern \in Externs}
                    \cup {<<ExternFunction(0, "none"), extern>> :
                             extern \in Externs}}

CallBodies ==
    UNION {{<<Call(function_index)>>,
            <<Call(function_index), I32Const(45)>>,
            <<Block(<<Call(function_index), I32Const(44)>>), I32Const(45)>>} :
              function_index \in 0..3}

CallInputs ==
    {Input(body, seed, table[1], table[2], {TRUE}) :
        body \in CallBodies,
        seed \in {<<>>, <<5>>, <<5, 3>>, <<9, 5, 3>>},
        table \in Tables}

\* The program of the test loop_statement, counting to bound.
CountingLoop(bound) ==
    <<I32Const(0), I32Store(0),
      Loop(<<I32Load(0), I32Const(bound), I32Eq, BranchIf(1), I32Const(42),
             I32Load(0), I32Const(1), I32Add, I32Store(0)>>)>>

CountingInputs ==
    {Input(CountingLoop(bound), <<>>, <<>>, <<>>, BOOLEAN) :
        bound \in 0..MaxCount}

\* Loads and stores at the first, a middle and the last cell, with and
\* without alignment.
MemoryAtoms(op) ==
    {MemArg(Instr(op, offset, <<>>), align) :
        offset \in {0, 3, MemorySize - 1}, align \in {0, 2}}

\* The shape of the tests load and store on a seeded stack: two stores or
\* pushes, then a load.
MemoryInputs ==
    {Input(<<first, second, load>>, <<5, 3>>, DefaultFuncs, DefaultExterns,
           {TRUE}) :
        first \in MemoryAtoms("I32Store"),
        second \in MemoryAtoms("I32Store") \cup {I32Const(7)},
        load \in MemoryAtoms("I32Load")}

\* The body inside Blocks and Loops nested as kinds says, the outermost
\* first, each followed by a push that tells whether its rest has run.
RECURSIVE Nested(_, _)
Nested(kinds, body) ==
    IF kinds = <<>> THEN body
    ELSE <<Instr(Head(kinds), 0, Nested(Tail(kinds), body)), I32Const(46)>>

\* The shape of the tests nested_break_single and nested_break_double at
\* every nesting up to MaxNesting and with every label up to MaxNesting.
NestingInputs ==
    {Input(<<I32Const(42)>> \o Nested(kinds, <<Branch(level), I32Const(44)>>),
           <<>>, DefaultFuncs, DefaultExterns, {TRUE}) :
        kinds \in SeqsUpTo({"Block", "Loop"}, MaxNesting), level \in 0..MaxNesting}

\* A call of a function of up to MaxParams parameters whose Code declares
\* up to two locals and whose body reads one local.
DeclaringInputs ==
    {Input(<<Call(0), I32Const(45)>>, <<9, 5, 3>>,
           <<Func(param_count, local_count, <<LocalGet(address)>>)>>,
           DefaultExterns, {TRUE}) :
        param_count \in 0..MaxParams, local_count \in 0..2,
        address \in 0..(MaxParams + 2)}

\* Bodies that leave no, one and several values and end at their end, by
\* Return and by Branch, and one that takes two values from below.
ResultBodies ==
    {<<>>, <<I32Const(1)>>, <<I32Const(1), I32Const(2)>>, <<I32Add>>,
     <<LocalGet(0), I32Const(2), I32Const(4)>>}
    \cup {<<I32Const(1), I32Const(2), jump, I32Const(3)>> :
            jump \in {Return, Branch(0), Branch(1)}}

\* A call, first in the program, of a function with such a body.
ResultInputs ==
    {Input(<<Call(0), I32Const(45)>>, <<9, 5, 3>>,
           <<Func(param_count, 0, body)>>, DefaultExterns, {TRUE}) :
        param_count \in 0..MaxParams, body \in ResultBodies}

Inputs ==
    StraightInputs \cup ControlInputs \cup CallInputs \cup CountingInputs
        \cup MemoryInputs \cup NestingInputs \cup DeclaringInputs
        \cup ResultInputs

Init ==
    \E input \in Inputs :
        /\ code = input.code
        /\ module_functions = input.module_functions
        /\ extern_functions = input.extern_functions
        /\ locals = DefaultLocals
        /\ overflow_checks \in input.builds
        /\ init_stack = input.stack
        /\ stack = input.stack
        /\ memory = ZeroMemory
        /\ frames = <<Frame(input.code, DefaultLocals, "Invoke")>>
        /\ flow = CfExec
        /\ status = "running"
        /\ result = CfNone
        /\ host_calls = <<>>
        /\ steps = 0
        /\ before = Start(input.code, input.stack, ZeroMemory, DefaultLocals)
        /\ file = <<>>
        /\ stream_position = 0
        /\ sections = <<>>
        /\ parsed = [r |-> "None", v |-> <<>>]
        /\ last_section = <<>>

(***************************************************************************)
(* Steps.                                                                  *)
(***************************************************************************)
\* The machine becomes m.
Becomes(m) ==
    /\ stack' = m.stack
    /\ memory' = m.memory
    /\ frames' = m.frames
    /\ flow' = m.flow
    /\ status' = m.status
    /\ result' = m.result
    /\ host_calls' = m.host_calls
    /\ steps' = steps + 1
    /\ before' = Machine
    /\ UNCHANGED <<code, module_functions, extern_functions, locals,
                   init_stack, overflow_checks, decoder_vars>>

\* The innermost invoke is at an instruction op.
At(op) ==
    /\ steps < MaxSteps
    /\ AtInstruction(Machine)
    /\ Current(Machine).op = op

ExecI32Const == At("I32Const") /\ Becomes(OnI32Const(Machine))

ExecI32Load == At("I32Load") /\ Becomes(OnI32Load(Machine))

ExecI32Store == At("I32Store") /\ Becomes(OnI32Store(Machine))

ExecI32Add == At("I32Add") /\ Becomes(OnI32Add(Machine))

ExecI32Sub == At("I32Sub") /\ Becomes(OnI32Sub(Machine))

ExecI32Mul == At("I32Mul") /\ Becomes(OnI32Mul(Machine))

ExecI32Eq == At("I32Eq") /\ Becomes(OnI32Eq(Machine))

ExecLocalGet == At("LocalGet") /\ Becomes(OnLocalGet(Machine))

ExecCallModule ==
    At("Call") /\ IsModuleCall(Machine) /\ Becomes(OnCallModule(Machine))

ExecCallExtern ==
    At("Call") /\ ~IsModuleCall(Machine) /\ Becomes(OnCallExtern(Machine))

ExecReturn == At("Return") /\ Becomes(OnReturn(Machine))

ExecBranch == At("Branch") /\ Becomes(OnBranch(Machine))

ExecBranchIf == At("BranchIf") /\ Becomes(OnBranchIf(Machine))

ExecBlock == At("Block") /\ Becomes(OnBlock(Machine))

ExecLoop == At("Loop") /\ Becomes(OnLoop(Machine))

ExecUnsupported ==
    /\ steps < MaxSteps
    /\ AtInstruction(Machine)
    /\ Current(Machine).op \notin SupportedOps
    /\ Becomes(OnUnsupported(Machine))

BodyEnd ==
    /\ steps < MaxSteps
    /\ status = "running"
    /\ flow = CfExec
    /\ Top(Machine).pc > Len(Top(Machine).code)
    /\ Becomes(OnBodyEnd(Machine))

BlockResult ==
    steps < MaxSteps /\ Returned(Machine, "Block") /\ Becomes(OnBlockResult(Machine))

LoopResult ==
    steps < MaxSteps /\ Returned(Machine, "Loop") /\ Becomes(OnLoopResult(Machine))

CallResult ==
    steps < MaxSteps /\ Returned(Machine, "Call") /\ Becomes(OnCallResult(Machine))

InvokeResult ==
    steps < MaxSteps /\ Returned(Machine, "Invoke") /\ Becomes(OnInvokeResult(Machine))

Next ==
    \/ ExecI32Const
    \/ ExecI32Load
    \/ ExecI32Store
    \/ ExecI32Add
    \/ ExecI32Sub
    \/ ExecI32Mul
    \/ ExecI32Eq
    \/ ExecLocalGet
    \/ ExecCallModule
    \/ ExecCallExtern
    \/ ExecReturn
    \/ ExecBranch
    \/ ExecBranchIf
    \/ ExecBlock
    \/ ExecLoop
    \/ ExecUnsupported
    \/ BodyEnd
    \/ BlockResult
    \/ LoopResult
    \/ CallResult
    \/ InvokeResult

Spec == Init /\ [][Next]_vars

(***************************************************************************)
(* The decoder (src/parser.rs).  Every parse function is an operator of    *)
(* the cursor position it starts at and gives a ParseResult together with  *)
(* the cursor position it leaves: r is "Ok", "Err", "Eof" or, for a        *)
(* panic, "Panic", and v is the parsed value or what the error says.       *)
(* A u32 is kept as the i32 with the same 32 bits.                         *)
(***************************************************************************)
Ok(v, pos) == [r |-> "Ok", v |-> v, pos |-> pos]

\* ParseErr::Err(format!(text, value))
Err(text, value, pos) ==
    [r |-> "Err", v |-> [text |-> text, value |-> value], pos |-> pos]

\* ParseErr::Eof
Eof(pos) == [r |-> "Eof", v |-> <<>>, pos |-> pos]

\* panic!(text, value) and the failed assert_eq!
Abort(text, value, pos) ==
    [r |-> "Panic", v |-> [text |-> text, value |-> value], pos |-> pos]

\* The element of a set of one element.  Only({e(x) : x \in {d}}) is e of
\* the value of d, with d computed once: the let of the source.
Only(S) == CHOOSE x \in S : TRUE

\* <[u8; SIZE]>::parse: one file.read into a buffer of size bytes.
ReadArray(pos, size) ==
    LET available == IF pos >= Len(file) THEN 0 ELSE Len(file) - pos
        s == IF available < size THEN available ELSE size
    IN  IF s = size THEN Ok(SubSeq(file, pos + 1, pos + size), pos + size)
        ELSE IF s = 0 THEN Eof(pos)
        ELSE Err("Unable to read data", <<size, s>>, pos + s)

\* u8::parse
ParseU8(pos) ==
    Only({IF buf.r = "Ok" THEN Ok(buf.v[1], buf.pos) ELSE buf :
            buf \in {ReadArray(pos, 1)}})

\* The bitwise or of two naturals below 2^n.
RECURSIVE OrBits(_, _, _)
OrBits(x, y, n) ==
    IF n = 0 THEN 0
    ELSE (IF x % 2 = 1 \/ y % 2 = 1 THEN 1 ELSE 0)
             + 2 * OrBits(x \div 2, y \div 2, n - 1)

\* a | b on 32 bits.
BitOr(a, b) ==
    FromHalves(OrBits(HiHalf(a), HiHalf(b), 16), OrBits(LoHalf(a), LoHalf(b), 16))

\* a << shift on 32 bits, for a shift below 32.
ShiftLeft(a, shift) == WrappingMul(a, IF shift = 31 THEN MinI32 ELSE 2 ^ shift)

\* result |= (value & 0x7f) << shift.  A shift of 32 or more is taken
\* modulo 32 where overflow checks are not compiled in.
OrGroup(result_so_far, value, shift) ==
    BitOr(result_so_far, ShiftLeft(value % 128, shift % 32))

\* A loop of parse_leb128_u32 that places each group a whole byte above
\* the one before.
RECURSIVE Leb128U32ByBytes(_, _, _)
Leb128U32ByBytes(pos, result_so_far, shift) ==
    Only({IF value.r # "Ok" THEN value
          ELSE IF shift >= 32 /\ overflow_checks
          THEN Abort("attempt to shift left with overflow", shift, value.pos)
          ELSE Only({IF value.v < 128 THEN Ok(next, value.pos)
                     ELSE Leb128U32ByBytes(value.pos, next, shift + 8) :
                        next \in {OrGroup(result_so_far, value.v, shift)}}) :
            value \in {ParseU8(pos)}})

\* The loop of parse_leb128_u32.  A shift of 32 or more panics where
\* overflow checks are compiled in.
RECURSIVE Leb128U32Loop(_, _, _)
Leb128U32Loop(pos, result_so_far, shift) ==
    Only({IF value.r # "Ok" THEN value
          ELSE IF shift >= 32 /\ overflow_checks
          THEN Abort("attempt to shift left with overflow", shift, value.pos)
          ELSE Only({IF value.v < 128 THEN Ok(next, value.pos)
                     ELSE Leb128U32Loop(value.pos, next, shift + 7) :
                        next \in {OrGroup(result_so_far, value.v, shift)}}) :
            value \in {ParseU8(pos)}})

parse_leb128_u32(pos) == Leb128U32Loop(pos, 0, 0)

\* The loop of parse_leb128_i32 and the sign fill after it, which shifts
\* by the shift of the last group read.
RECURSIVE Leb128I32Loop(_, _, _)
Leb128I32Loop(pos, result_so_far, shift) ==
    Only({IF value.r # "Ok" THEN value
          ELSE IF shift >= 32 /\ overflow_checks
          THEN Abort("attempt to shift left with overflow", shift, value.pos)
          ELSE Only({IF value.v >= 128
                     THEN Leb128I32Loop(value.pos, next, shift + 7)
                     ELSE IF (value.v \div 64) % 2 = 1
                     THEN Ok(BitOr(next, ShiftLeft(-1, shift % 32)), value.pos)
                     ELSE Ok(next, value.pos) :
                        next \in {OrGroup(result_so_far, value.v, shift)}}) :
            value \in {ParseU8(pos)}})

parse_leb128_i32(pos) == Leb128I32Loop(pos, 0, 0)

\* u32 as usize, as far as a count or a size matters to a file of the
\* model: a u32 of 2^31 or more is more than any position in the file.
AsUsize(word) == IF word < 0 THEN MaxI32 ELSE word

\* Parse::parse for the type named by kind; defined after the types.
RECURSIVE ParseItem(_, _)

\* Parse::parse(file)? for one type after the other, as in a struct
\* literal: the first failure is returned, otherwise the values in order.
RECURSIVE ParseFields(_, _, _)
ParseFields(kinds, pos, values) ==
    IF kinds = <<>> THEN Ok(values, pos)
    ELSE Only({IF item.r # "Ok" THEN item
               ELSE ParseFields(Tail(kinds), item.pos, Append(values, item.v)) :
                 item \in {ParseItem(Head(kinds), pos)}})

\* A struct whose fields, named by names, are parsed in order as kinds.
Struct(names, kinds, pos) ==
    Only({IF fields.r # "Ok" THEN fields
          ELSE Ok([name \in {names[i] : i \in DOMAIN names} |->
                      fields.v[CHOOSE i \in DOMAIN names : names[i] = name]],
                  fields.pos) :
            fields \in {ParseFields(kinds, pos, <<>>)}})

\* for _ in 0..n { result_type.push(Parse::parse(file)?) }
RECURSIVE VecLoop(_, _, _, _)
VecLoop(kind, pos, n, result_type) ==
    IF n = 0 THEN Ok(result_type, pos)
    ELSE Only({IF item.r # "Ok" THEN item
               ELSE VecLoop(kind, item.pos, n - 1, Append(result_type, item.v)) :
                 item \in {ParseItem(kind, pos)}})

\* impl Parse for Vec<T>, T named by kind
ParseVec(kind, pos) ==
    Only({IF n.r # "Ok" THEN n ELSE VecLoop(kind, n.pos, AsUsize(n.v), <<>>) :
            n \in {parse_leb128_u32(pos)}})

\* impl Parse for ValueType
ParseValueType(pos) ==
    Only({IF value_type.r # "Ok" THEN value_type
          ELSE CASE value_type.v = 127 -> Ok("I32", value_type.pos)
                 [] value_type.v = 126 -> Ok("I64", value_type.pos)
                 [] value_type.v = 125 -> Ok("F32", value_type.pos)
                 [] value_type.v = 124 -> Ok("F64", value_type.pos)
                 [] OTHER -> Err("Invalid value type encountered",
                                 value_type.v, value_type.pos) :
            value_type \in {ParseU8(pos)}})

\* impl Parse for FuncType
ParseFuncType(pos) ==
    Only({IF marker.r # "Ok" THEN marker
          ELSE IF marker.v # 96
          THEN Err("Invalid marker found for FuncType", marker.v, marker.pos)
          ELSE Struct(<<"parameter_types", "result_types">>,
                      <<"Vec<ValueType>", "Vec<ValueType>">>, marker.pos) :
            marker \in {ParseU8(pos)}})

\* impl Parse for RefType
ParseRefType(pos) ==
    Only({IF elem_type.r # "Ok" THEN elem_type
          ELSE IF elem_type.v = 112 THEN Ok("FuncRef", elem_type.pos)
          ELSE Err("Invalid RefType", elem_type.v, elem_type.pos) :
            elem_type \in {ParseU8(pos)}})

\* impl Parse for Limits
ParseLimits(pos) ==
    Only({IF has_max.r # "Ok" THEN has_max
          ELSE IF has_max.v = 1
          THEN Only({IF both.r # "Ok" THEN both
                     ELSE Ok([min |-> both.v[1], max |-> <<both.v[2]>>], both.pos) :
                       both \in {ParseFields(<<"u32", "u32">>, has_max.pos, <<>>)}})
          ELSE Only({IF min.r # "Ok" THEN min
                     ELSE Ok([min |-> min.v, max |-> <<>>], min.pos) :
                       min \in {parse_leb128_u32(has_max.pos)}}) :
            has_max \in {ParseU8(pos)}})

\* impl Parse for TableType
ParseTableType(pos) ==
    Struct(<<"elem_type", "limits">>, <<"RefType", "Limits">>, pos)

\* impl Parse for MemType
ParseMemType(pos) == Struct(<<"limits">>, <<"Limits">>, pos)

\* A parser of Mutability that takes every byte but 0x00 as var.
ParseMutabilityNonZeroVar(pos) ==
    Only({IF mutability.r # "Ok" THEN mutability
          ELSE IF mutability.v = 0 THEN Ok("Constant", mutability.pos)
          ELSE Ok("Variable", mutability.pos) :
            mutability \in {ParseU8(pos)}})

\* impl Parse for Mutability
ParseMutability(pos) ==
    Only({IF mutability.r # "Ok" THEN mutability
          ELSE CASE mutability.v = 0 -> Ok("Constant", mutability.pos)
                 [] mutability.v = 1 -> Ok("Variable", mutability.pos)
                 [] OTHER -> Err("Invalid mutability", mutability.v,
                                 mutability.pos) :
            mutability \in {ParseU8(pos)}})

\* impl Parse for GlobalType
ParseGlobalType(pos) ==
    Struct(<<"value_type", "mutability">>, <<"ValueType", "Mutability">>, pos)

\* Self::variant(Parse::parse(file)?) of a descriptor, the value being of
\* the type named by kind.
Described(variant, kind, pos) ==
    Only({IF described.r # "Ok" THEN described
          ELSE Ok([variant |-> variant, v |-> described.v], described.pos) :
            described \in {ParseItem(kind, pos)}})

\* impl Parse for ImportDescriptor
ParseImportDescriptor(pos) ==
    Only({IF id.r # "Ok" THEN id
          ELSE CASE id.v = 0 -> Described("Func", "u32", id.pos)
                 [] id.v = 1 -> Described("Table", "TableType", id.pos)
                 [] id.v = 2 -> Described("Memory", "MemType", id.pos)
                 [] id.v = 3 -> Described("Global", "GlobalType", id.pos)
                 [] OTHER -> Err("Invalid import descriptor type", id.v, id.pos) :
            id \in {ParseU8(pos)}})

\* String::from_utf8 on bytes below 0xE0: ASCII, and the two-byte forms.
RECURSIVE Utf8From(_, _)
Utf8From(bytes, i) ==
    IF i > Len(bytes) THEN TRUE
    ELSE IF bytes[i] < 128 THEN Utf8From(bytes, i + 1)
    ELSE /\ bytes[i] \in 194..223
         /\ i < Len(bytes)
         /\ bytes[i + 1] \in 128..191
         /\ Utf8From(bytes, i + 2)

\* impl Parse for Name
ParseName(pos) ==
    Only({IF bytes.r # "Ok" THEN bytes
          ELSE IF ~Utf8From(bytes.v, 1)
          THEN Err("Invalid UTF8 string", bytes.v, bytes.pos)
          ELSE bytes :
            bytes \in {ParseVec("u8", pos)}})

\* impl Parse for Import
ParseImport(pos) ==
    Struct(<<"module", "name", "descriptor">>,
           <<"Name", "Name", "ImportDescriptor">>, pos)

\* impl Parse for ExportDescriptor
ParseExportDescriptor(pos) ==
    Only({IF id.r # "Ok" THEN id
          ELSE IF id.v \in 0..3
          THEN Described(<<"Func", "Table", "Memory", "Global">>[id.v + 1],
                         "u32", id.pos)
          ELSE Err("Invalid export descriptor type", id.v, id.pos) :
            id \in {ParseU8(pos)}})

\* impl Parse for Export
ParseExport(pos) ==
    Struct(<<"name", "descriptor">>, <<"Name", "ExportDescriptor">>, pos)

\* impl Parse for Global
ParseGlobal(pos) ==
    Struct(<<"global_type", "expression">>,
           <<"GlobalType", "Vec<Instruction>">>, pos)

\* impl Parse for Locals
ParseLocals(pos) == Struct(<<"n", "t">>, <<"u32", "ValueType">>, pos)

\* impl Parse for BlockType
ParseBlockType(pos) ==
    Only({IF id.r # "Ok" THEN id
          ELSE IF id.v = 64 THEN Ok("Empty", id.pos)
          ELSE Abort("Unsupported blocktype", id.v, id.pos) :
            id \in {ParseU8(pos)}})

\* impl Parse for MemArg
ParseMemArg(pos) == Struct(<<"align", "offset">>, <<"u32", "u32">>, pos)

\* The opcodes without an immediate, and their instructions.
PlainOpcodes ==
    [opcode \in {0, 15, 70, 74, 99, 100, 102, 106, 107, 108, 160, 161, 162, 163} |->
        CASE opcode = 0 -> "Unreachable"
          [] opcode = 15 -> "Return"
          [] opcode = 70 -> "I32Eq"
          [] opcode = 74 -> "I32GtSigned"
          [] opcode = 99 -> "F64Lt"
          [] opcode = 100 -> "F64Gt"
          [] opcode = 102 -> "F64Ge"
          [] opcode = 106 -> "I32Add"
          [] opcode = 107 -> "I32Sub"
          [] opcode = 108 -> "I32Mul"
          [] opcode = 160 -> "F64Add"
          [] opcode = 161 -> "F64Sub"
          [] opcode = 162 -> "F64Mul"
          [] OTHER -> "F64Div"]

\* The opcodes followed by one index, and their instructions.
IndexOpcodes ==
    [opcode \in {12, 13, 16, 32, 33, 35, 36} |->
        CASE opcode = 12 -> "Branch"
          [] opcode = 13 -> "BranchIf"
          [] opcode = 16 -> "Call"
          [] opcode = 32 -> "LocalGet"
          [] opcode = 33 -> "LocalSet"
          [] opcode = 35 -> "GlobalGet"
          [] opcode = 36 -> "GlobalSet"]

\* The types of the immediates that follow an opcode, in the order the
\* match arm parses them.
Immediates(opcode) ==
    CASE opcode \in DOMAIN PlainOpcodes -> <<>>
      [] opcode \in DOMAIN IndexOpcodes -> <<"u32">>
      [] opcode \in {2, 3} -> <<"BlockType", "Vec<Instruction>">>
      [] opcode = 4 -> <<"BlockType", "Vec<Instruction>", "Vec<Instruction>">>
      [] opcode \in {40, 54} -> <<"MemArg">>
      [] opcode = 65 -> <<"i32">>
      [] opcode = 68 -> <<"f64">>

\* The Instruction a match arm builds from its parsed immediates.
Built(opcode, immediates) ==
    CASE opcode \in DOMAIN PlainOpcodes -> Instr(PlainOpcodes[opcode], 0, <<>>)
      [] opcode \in DOMAIN IndexOpcodes ->
            Instr(IndexOpcodes[opcode], immediates[1], <<>>)
      [] opcode = 2 -> Instr("Block", 0, immediates[2])
      [] opcode = 3 -> Instr("Loop", 0, immediates[2])
      [] opcode = 4 -> If(immediates[2], immediates[3])
      [] opcode = 40 ->
            MemArg(Instr("I32Load", immediates[1].offset, <<>>), immediates[1].align)
      [] opcode = 54 ->
            MemArg(Instr("I32Store", immediates[1].offset, <<>>), immediates[1].align)
      [] opcode = 65 -> Instr("I32Const", immediates[1], <<>>)
      [] opcode = 68 -> Instr("F64Const", immediates[1], <<>>)

\* The opcodes the match of Vec<Instruction>::parse has an arm for, the
\* two sentinels aside.
Opcodes ==
    DOMAIN PlainOpcodes \cup DOMAIN IndexOpcodes \cup {2, 3, 4, 40, 54, 65, 68}

\* A match on the opcode whose arm for Branch (0x0C) reads no label index.
ParseInstructionBareBranch(opcode, pos, decoded) ==
    IF opcode = 12 THEN Ok(Branch(0), pos)
    ELSE IF opcode \notin Opcodes
    THEN Abort("Unsupported opcode found",
               [opcode |-> opcode, stream_pos |-> pos - 1, decoded |-> decoded],
               pos)
    ELSE Only({IF immediates.r # "Ok" THEN immediates
               ELSE Ok(Built(opcode, immediates.v), immediates.pos) :
                 immediates \in {ParseFields(Immediates(opcode), pos, <<>>)}})

\* The match on the opcode in the loop of Vec<Instruction>::parse, for an
\* opcode that is no sentinel; decoded is the body so far and pos the
\* position after the opcode.
ParseInstruction(opcode, pos, decoded) ==
    IF opcode \notin Opcodes
    THEN Abort("Unsupported opcode found",
               [opcode |-> opcode, stream_pos |-> pos - 1, decoded |-> decoded],
               pos)
    ELSE Only({IF immediates.r # "Ok" THEN immediates
               ELSE Ok(Built(opcode, immediates.v), immediates.pos) :
                 immediates \in {ParseFields(Immediates(opcode), pos, <<>>)}})

\* The loop of Vec<Instruction>::parse: 0x05 and 0x0B end the body.
RECURSIVE InstructionLoop(_, _)
InstructionLoop(pos, decoded) ==
    Only({IF opcode.r # "Ok" THEN opcode
          ELSE IF opcode.v \in {5, 11} THEN Ok(decoded, opcode.pos)
          ELSE Only({IF instruction.r # "Ok" THEN instruction
                     ELSE InstructionLoop(instruction.pos,
                                          Append(decoded, instruction.v)) :
                       instruction \in
                           {ParseInstruction(opcode.v, opcode.pos, decoded)}}) :
            opcode \in {ParseU8(pos)}})

\* impl Parse for Vec<Instruction>
ParseInstructions(pos) == InstructionLoop(pos, <<>>)

\* One copy of t for every declaration, whatever its n.
FlatMapOneEach(all_locals) == [i \in 1..Len(all_locals) |-> all_locals[i].t]

\* vec![local.t; local.n as usize] for every local, one after the other.
RECURSIVE FlatMap(_)
FlatMap(all_locals) ==
    IF all_locals = <<>> THEN <<>>
    ELSE [i \in 1..AsUsize(all_locals[1].n) |-> all_locals[1].t]
             \o FlatMap(Tail(all_locals))

\* impl Parse for Code
ParseCode(pos) ==
    Only({IF size.r # "Ok" THEN size
          ELSE Only({IF fields.r # "Ok" THEN fields
                     ELSE IF size.v # fields.pos - size.pos
                     THEN Abort("assertion failed: left == right",
                                <<size.v, fields.pos - size.pos>>, fields.pos)
                     ELSE Ok([locals |-> FlatMap(fields.v[1]), body |-> fields.v[2]],
                             fields.pos) :
                       fields \in {ParseFields(<<"Vec<Locals>", "Vec<Instruction>">>,
                                               size.pos, <<>>)}}) :
            size \in {parse_leb128_u32(pos)}})

\* f64::parse: the eight bytes of the number, least significant first.
ParseF64(pos) == ReadArray(pos, 8)

\* Parse::parse for the type named by kind.  The index types are a u32.
ParseItem(kind, pos) ==
    CASE kind = "u8" -> ParseU8(pos)
      [] kind \in {"u32", "TypeIdx"} -> parse_leb128_u32(pos)
      [] kind = "i32" -> parse_leb128_i32(pos)
      [] kind = "f64" -> ParseF64(pos)
      [] kind = "ValueType" -> ParseValueType(pos)
      [] kind = "Vec<ValueType>" -> ParseVec("ValueType", pos)
      [] kind = "FuncType" -> ParseFuncType(pos)
      [] kind = "RefType" -> ParseRefType(pos)
      [] kind = "Limits" -> ParseLimits(pos)
      [] kind = "TableType" -> ParseTableType(pos)
      [] kind = "MemType" -> ParseMemType(pos)
      [] kind = "Mutability" -> ParseMutability(pos)
      [] kind = "GlobalType" -> ParseGlobalType(pos)
      [] kind = "ImportDescriptor" -> ParseImportDescriptor(pos)
      [] kind = "ExportDescriptor" -> ParseExportDescriptor(pos)
      [] kind = "Name" -> ParseName(pos)
      [] kind = "Import" -> ParseImport(pos)
      [] kind = "Export" -> ParseExport(pos)
      [] kind = "Global" -> ParseGlobal(pos)
      [] kind = "Locals" -> ParseLocals(pos)
      [] kind = "Vec<Locals>" -> ParseVec("Locals", pos)
      [] kind = "BlockType" -> ParseBlockType(pos)
      [] kind = "MemArg" -> ParseMemArg(pos)
      [] kind = "Vec<Instruction>" -> ParseInstructions(pos)
      [] kind = "Code" -> ParseCode(pos)

\* A parser of Preamble that accepts any four bytes as the version.
ParsePreambleAnyVersion(pos) ==
    Only({IF magic.r # "Ok" THEN magic
          ELSE IF magic.v # <<0, 97, 115, 109>>
          THEN Err("Invalid magic value", <<>>, magic.pos)
          ELSE Only({IF version.r # "Ok" THEN version
                     ELSE Ok([magic |-> magic.v, version |-> version.v],
                             version.pos) :
                       version \in {ReadArray(magic.pos, 4)}}) :
            magic \in {ReadArray(pos, 4)}})

\* impl Parse for Preamble
ParsePreamble(pos) ==
    Only({IF magic.r # "Ok" THEN magic
          ELSE IF magic.v # <<0, 97, 115, 109>>
          THEN Err("Invalid magic value", <<>>, magic.pos)
          ELSE Only({IF version.r # "Ok" THEN version
                     ELSE IF version.v # <<1, 0, 0, 0>>
                     THEN Err("Invalid version", <<>>, version.pos)
                     ELSE Ok([magic |-> magic.v, version |-> version.v],
                             version.pos) :
                       version \in {ReadArray(magic.pos, 4)}}) :
            magic \in {ReadArray(pos, 4)}})

\* The variants of Section by section id.
SectionNames ==
    <<"Custom", "Type", "Import", "Function", "Table", "Memory", "Global",
      "Export", "Start", "Element", "Code", "Data">>

\* The element type of the vector a section with a body parser holds.
SectionItems ==
    [id \in {1, 2, 3, 5, 6, 7, 10} |->
        CASE id = 1 -> "FuncType"
          [] id = 2 -> "Import"
          [] id = 3 -> "TypeIdx"
          [] id = 5 -> "MemType"
          [] id = 6 -> "Global"
          [] id = 7 -> "Export"
          [] id = 10 -> "Code"]

\* The id byte and the size of a section; the position it leaves is start.
SectionHeader(pos) == ParseFields(<<"u8", "u32">>, pos, <<>>)

\* A seek that leaves the cursor where it is.
SeekNowhere(start, size) == start

\* file.seek(SeekFrom::Current(size as i64)) from start.
Seek(start, size) == IF size < 0 THEN MaxI32 ELSE start + size

\* A match on the id whose last arm takes every other id as a section to
\* skip.
SectionContentsSkipsUnknown(id, size, start) ==
    IF id \notin DOMAIN SectionItems
    THEN Ok([variant |-> IF id > 11 THEN "Custom" ELSE SectionNames[id + 1],
             v |-> <<>>],
            Seek(start, size))
    ELSE Only({IF contents.r # "Ok" THEN contents
               ELSE Ok([variant |-> SectionNames[id + 1], v |-> contents.v],
                       contents.pos) :
                 contents \in {ParseVec(SectionItems[id], start)}})

\* The match on the id of Section::parse and the seek after it, for a header
\* read: the section and the position stop.
SectionContents(id, size, start) ==
    IF id > 11 THEN Err("Found unknown section id", id, start)
    ELSE IF id \notin DOMAIN SectionItems
    THEN Ok([variant |-> SectionNames[id + 1], v |-> <<>>], Seek(start, size))
    ELSE Only({IF contents.r # "Ok" THEN contents
               ELSE Ok([variant |-> SectionNames[id + 1], v |-> contents.v],
                       contents.pos) :
                 contents \in {ParseVec(SectionItems[id], start)}})

\* A parser of Section that leaves out the comparison of the declared size
\* with the bytes read.
ParseSectionUnsized(pos) ==
    Only({IF header.r # "Ok" THEN header
          ELSE SectionContents(header.v[1], header.v[2], header.pos) :
            header \in {SectionHeader(pos)}})

\* impl Parse for Section.  After the seek of a skipped section stop - start
\* is size, whatever the file holds.
ParseSection(pos) ==
    Only({IF header.r # "Ok" THEN header
          ELSE Only({IF section.r # "Ok" THEN section
                     ELSE IF /\ header.v[1] \in DOMAIN SectionItems
                             /\ header.v[2] # section.pos - header.pos
                     THEN Abort("assertion failed: left == right",
                                <<header.v[2], section.pos - header.pos>>,
                                section.pos)
                     ELSE section :
                       section \in {SectionContents(header.v[1], header.v[2],
                                                    header.pos)}}) :
            header \in {SectionHeader(pos)}})

\* A loop that assigns a field only while it is empty: the first section
\* of the variant with contents stays.
RECURSIVE AssignedOnce(_, _)
AssignedOnce(all_sections, variant) ==
    IF all_sections = <<>> THEN <<>>
    ELSE IF Head(all_sections).variant = variant /\ Head(all_sections).v # <<>>
    THEN Head(all_sections).v
    ELSE AssignedOnce(Tail(all_sections), variant)

\* What the for loop of Module::parse leaves in the field that the
\* sections of the given variant are assigned to.
RECURSIVE Assigned(_, _)
Assigned(all_sections, variant) ==
    IF all_sections = <<>> THEN <<>>
    ELSE IF Last(all_sections).variant = variant THEN Last(all_sections).v
    ELSE Assigned(Pop(all_sections), variant)

\* The Module that Module::parse returns for a preamble and sections.
Module(preamble, all_sections) ==
    [preamble |-> preamble,
     types |-> Assigned(all_sections, "Type"),
     imports |-> Assigned(all_sections, "Import"),
     functions |-> Assigned(all_sections, "Function"),
     memories |-> Assigned(all_sections, "Memory"),
     globals |-> Assigned(all_sections, "Global"),
     exports |-> Assigned(all_sections, "Export"),
     codes |-> Assigned(all_sections, "Code")]

(***************************************************************************)
(* The LEB128 readers on their own: a file that starts with the groups of  *)
(* one integer is read by parse_leb128_u32 or by parse_leb128_i32.         *)
(***************************************************************************)
MaxGroups == 5

\* The canonical signed LEB128 encoding of the i32 v.
RECURSIVE EncodeI32(_)
EncodeI32(v) ==
    LET byte == v % 128
        rest == v \div 128
    IN  IF (rest = 0 /\ byte < 64) \/ (rest = -1 /\ byte >= 64) THEN <<byte>>
        ELSE <<byte + 128>> \o EncodeI32(rest)

\* The u32 word shifted right by 7 bits.
ShiftRight7(word) ==
    IF word >= 0 THEN word \div 128 ELSE ((word - MinI32) \div 128) + 2 ^ 24

\* The canonical unsigned LEB128 encoding of the u32 word.
RECURSIVE EncodeU32(_)
EncodeU32(word) ==
    IF ShiftRight7(word) = 0 THEN <<word % 128>>
    ELSE <<(word % 128) + 128>> \o EncodeU32(ShiftRight7(word))

\* The integers whose canonical encodings are read.
LebValues ==
    {0, 1, 2, 63, 64, 127, 128, 255, 16384, 624485, MaxI32,
     -1, -2, -64, -65, -128, -129, -123456, MinI32}

\* The 7-bit groups the other files are made of.
Payloads == {0, 1, 64, 127}

\* A sequence of groups as bytes: all but the last with the continuation bit.
Continued(groups) ==
    [i \in 1..Len(groups) |->
        IF i < Len(groups) THEN groups[i] + 128 ELSE groups[i]]

\* Files of 1..MaxGroups groups alone and followed by another byte, files
\* that end inside an integer, one integer of more groups than 32 bits
\* hold, and the canonical encodings.
LebFiles ==
    LET encoded == {Continued(groups) :
                        groups \in SeqsUpTo(Payloads, MaxGroups) \ {<<>>}}
    IN  encoded
        \cup {bytes \o <<127>> : bytes \in encoded}
        \cup {<<>>, <<128>>, <<255, 129>>, <<128, 128, 128, 128, 128, 1>>}
        \cup {EncodeI32(v) : v \in LebValues}
        \cup {EncodeU32(v) : v \in LebValues}

\* The machine does not take part in decoding.
MachineIdle ==
    /\ code = <<>>
    /\ module_functions = <<>>
    /\ extern_functions = <<>>
    /\ locals = <<>>
    /\ init_stack = <<>>
    /\ stack = <<>>
    /\ memory = ZeroMemory
    /\ frames = <<>>
    /\ flow = CfExec
    /\ status = "idle"
    /\ result = CfNone
    /\ host_calls = <<>>
    /\ steps = 0
    /\ before = <<>>

machine_vars ==
    <<stack, memory, frames, flow, status, result, host_calls, code,
      module_functions, extern_functions, locals, init_stack,
      overflow_checks, steps, before>>

LebInit ==
    /\ MachineIdle
    /\ overflow_checks \in BOOLEAN
    /\ file \in LebFiles
    /\ stream_position = 0
    /\ sections = <<>>
    /\ parsed = [r |-> "Start", v |-> <<>>, of |-> "none"]
    /\ last_section = <<>>

\* The reader returns returned, which it read as an integer of type of.
Read(returned, of) ==
    /\ parsed.r = "Start"
    /\ parsed' = [r |-> returned.r, v |-> returned.v, of |-> of]
    /\ stream_position' = returned.pos
    /\ UNCHANGED <<file, sections, last_section, machine_vars>>

ReadU32 == Read(parse_leb128_u32(stream_position), "u32")

ReadI32 == Read(parse_leb128_i32(stream_position), "i32")

LebNext == ReadU32 \/ ReadI32

LebSpec == LebInit /\ [][LebNext]_vars

(***************************************************************************)
(* Module::parse on a file: the preamble, then one Section::parse after    *)
(* the other in the loop of parse_sections, then the Module.               *)
(***************************************************************************)
MaxSections == 2

\* Bytes behind their length, as the encoding of a size or a count below
\* 128 followed by that many bytes.
Sized(contents) == <<Len(contents)>> \o contents

SectionBytes(id, contents) == <<id>> \o Sized(contents)

PreambleBytes == <<0, 97, 115, 109, 1, 0, 0, 0>>

\* One code entry: two i32 locals; a Block with LocalGet 0 and BranchIf 0,
\* an If with an else, and Return.
CodeBytes ==
    Sized(<<1, 2, 127,
            2, 64, 32, 0, 13, 0, 11,
            4, 64, 65, 1, 5, 65, 126, 11,
            15, 11>>)

\* Sections that are as their headers say: one of each kind with a body
\* parser, and skipped sections of arbitrary bytes.
GoodSections ==
    {SectionBytes(1, <<1, 96, 2, 127, 127, 1, 127>>),
     SectionBytes(2, <<1, 1, 97, 1, 98, 0, 0>>),
     SectionBytes(3, <<1, 0>>),
     SectionBytes(5, <<1, 0, 1>>),
     SectionBytes(6, <<1, 127, 0, 65, 0, 11>>),
     SectionBytes(7, <<1, 1, 97, 0, 0>>),
     SectionBytes(10, <<1>> \o CodeBytes),
     SectionBytes(0, <<255, 1, 2>>),
     SectionBytes(4, <<1, 112, 0, 0>>),
     SectionBytes(8, <<0>>),
     SectionBytes(9, <<>>),
     SectionBytes(11, <<12, 7>>)}

\* Sections that are not: an unknown id, sizes that differ from what the
\* body parser or the code entry consumes, an opcode and a block type the
\* decoder does not know, a wrong value type, and a skipped section that
\* declares more bytes than follow.
BadSections ==
    {<<12, 0>>,
     <<3, 1, 1, 0>>,
     SectionBytes(10, <<1, 3, 0, 65, 42, 11>>),
     SectionBytes(10, <<1>> \o Sized(<<0, 65, 42, 1, 11>>)),
     SectionBytes(10, <<1>> \o Sized(<<0, 2, 127, 11, 11>>)),
     SectionBytes(1, <<1, 96, 1, 0, 0>>),
     <<0, 5, 1>>}

RECURSIVE Concat(_)
Concat(seqs) == IF seqs = <<>> THEN <<>> ELSE seqs[1] \o Concat(Tail(seqs))

Prefixes(bytes) == {SubSeq(bytes, 1, n) : n \in 0..Len(bytes)}

\* Sections that hold every tag byte of a defined set: the four value
\* types, imports and exports of the four descriptors, a const and a var
\* global.
TaggedSections ==
    {SectionBytes(1, <<1, 96, 4, 127, 126, 125, 124, 0>>),
     SectionBytes(2, <<4, 0, 0, 0, 5,
                          0, 0, 1, 112, 0, 0,
                          0, 0, 2, 0, 1,
                          0, 0, 3, 127, 1>>),
     SectionBytes(6, <<2, 127, 0, 11, 124, 1, 11>>),
     SectionBytes(7, <<4, 0, 0, 0, 0, 1, 0, 0, 2, 0, 0, 3, 0>>)}

\* Sections with one tag byte outside its set: value types 0x7B and 0x80,
\* mutability 2, import and export descriptor 4, the marker 0x61 for a
\* function type.
MistaggedSections ==
    {SectionBytes(1, <<1, 96, 1, 123, 0>>),
     SectionBytes(1, <<1, 96, 0, 1, 128>>),
     SectionBytes(6, <<1, 127, 2, 11>>),
     SectionBytes(2, <<1, 0, 0, 4, 0>>),
     SectionBytes(7, <<1, 0, 4, 0>>),
     SectionBytes(1, <<1, 97, 0, 0>>)}

\* Function sections of different contents, for files that hold several
\* sections of one id.
FunctionSections ==
    {SectionBytes(3, <<1, 0>>), SectionBytes(3, <<2, 1, 0>>), SectionBytes(3, <<0>>)}

\* Ends of files that stop inside what they announce: a header without
\* its size, a vector of 255 elements and a body without its 0x0B, a size
\* of six groups, and a size and a count of 2^32 - 1.
OpenEnds ==
    {<<7>>,
     <<1, 5, 255, 96>>,
     <<10, 4, 1, 2, 0, 65>>,
     <<3, 128, 128, 128, 128, 128, 1, 0>>,
     <<1, 255, 255, 255, 255, 15, 255, 255, 255, 255, 15, 96, 0, 0>>}

\* The tagged and the mistagged sections, and the other sections that are
\* not as their headers say, alone and before a Function section; and the
\* files with an open end.
TagFiles ==
    {PreambleBytes \o section \o rest :
        section \in TaggedSections \cup MistaggedSections \cup BadSections,
        rest \in {<<>>, SectionBytes(3, <<1, 0>>)}}
    \cup {PreambleBytes \o rest : rest \in OpenEnds}

\* Files with the preamble and up to MaxSections sections, every file that
\* is cut off somewhere in the preamble or in its only section, files
\* with a wrong magic and a wrong version, a file that ends after the id
\* byte 12, the files of the tagged sections, and two Function sections
\* in either order around a Type section.
Files ==
    {PreambleBytes \o Concat(seq) :
        seq \in SeqsUpTo(GoodSections \cup BadSections, MaxSections)}
    \cup UNION {Prefixes(PreambleBytes \o section) : section \in GoodSections}
    \cup {<<0, 97, 115, 110, 1, 0, 0, 0>> \o SectionBytes(3, <<1, 0>>),
          <<0, 97, 115, 109, 2, 0, 0, 0>> \o SectionBytes(3, <<1, 0>>),
          PreambleBytes \o <<12>>}
    \cup TagFiles
    \cup {PreambleBytes \o first \o SectionBytes(1, <<0>>) \o second :
            first \in FunctionSections, second \in FunctionSections}

DecodeInit ==
    /\ MachineIdle
    /\ overflow_checks \in BOOLEAN
    /\ file \in Files
    /\ stream_position = 0
    /\ sections = <<>>
    /\ parsed = [r |-> "Start", v |-> <<>>]
    /\ last_section = <<>>

\* Module::parse has returned Err(message).
Failed(message) == [r |-> "Err", v |-> message]

\* Module::parse reads the preamble; Eof there is an error.
ModuleParsePreamble ==
    LET preamble == ParsePreamble(stream_position)
    IN  /\ parsed.r = "Start"
        /\ parsed' =
             CASE preamble.r = "Ok" -> [r |-> "Sections", v |-> preamble.v]
               [] preamble.r = "Eof" ->
                    Failed([text |-> "Unexpected end of file detected",
                            value |-> <<>>])
               [] OTHER -> Failed(preamble.v)
        /\ stream_position' = preamble.pos
        /\ UNCHANGED <<file, sections, last_section, machine_vars>>

\* One Section::parse in the loop of parse_sections, from the cursor.
NextSection == ParseSection(stream_position)

\* The loop of parse_sections calls Section::parse, which returns as.
SectionReturns(as) ==
    /\ parsed.r = "Sections"
    /\ NextSection.r = as
    /\ stream_position' = NextSection.pos
    /\ last_section' = [at |-> stream_position,
                        header |-> SectionHeader(stream_position),
                        r |-> as,
                        stop |-> NextSection.pos]
    /\ UNCHANGED <<file, machine_vars>>

\* Ok(section) => sections.push(section)
SectionParsed ==
    /\ SectionReturns("Ok")
    /\ sections' = Append(sections, NextSection.v)
    /\ UNCHANGED parsed

\* A loop that goes on at Eof: Err(ParseErr::Eof) => continue.
SectionsGoOn ==
    /\ SectionReturns("Eof")
    /\ UNCHANGED <<parsed, sections>>

\* Err(ParseErr::Eof) => break; Module::parse then assigns the sections
\* to the fields of the Module and returns it.
SectionsEnd ==
    /\ SectionReturns("Eof")
    /\ parsed' = [r |-> "Ok", v |-> Module(parsed.v, sections)]
    /\ UNCHANGED sections

\* Err(ParseErr::Err(err)) => return Err(err)
SectionFails ==
    /\ SectionReturns("Err")
    /\ parsed' = Failed(NextSection.v)
    /\ UNCHANGED sections

\* A panic inside Section::parse ends the process.
SectionPanics ==
    /\ SectionReturns("Panic")
    /\ parsed' = [r |-> "Panic", v |-> NextSection.v]
    /\ UNCHANGED sections

DecodeNext ==
    \/ ModuleParsePreamble
    \/ SectionParsed
    \/ SectionsEnd
    \/ SectionFails
    \/ SectionPanics

DecodeSpec == DecodeInit /\ [][DecodeNext]_vars

\* Module::parse on the files of the tagged sections alone.
TagInit ==
    /\ MachineIdle
    /\ overflow_checks \in BOOLEAN
    /\ file \in TagFiles
    /\ stream_position = 0
    /\ sections = <<>>
    /\ parsed = [r |-> "Start", v |-> <<>>]
    /\ last_section = <<>>

TagSpec == TagInit /\ [][DecodeNext]_vars

\* Module::parse runs on: a step that can be taken is taken.
TagLive == TagSpec /\ WF_vars(DecodeNext)

(***************************************************************************)
(* Vec<Instruction>::parse and Code::parse on their own: a file that holds *)
(* the bytes of one instruction body, or of one Code entry, is read by     *)
(* either.  code is the body the bytes of the file were written from.      *)
(***************************************************************************)
MaxBody == 2

MaxDeclarations == 2

F64Const(bytes) == Instr("F64Const", bytes, <<>>)

\* The opcode byte of an instruction without nested body.
OpcodeOf(op) ==
    CASE op = "I32Load" -> 40
      [] op = "I32Store" -> 54
      [] op = "I32Const" -> 65
      [] op = "F64Const" -> 68
      [] op \in {PlainOpcodes[opcode] : opcode \in DOMAIN PlainOpcodes} ->
            CHOOSE opcode \in DOMAIN PlainOpcodes : PlainOpcodes[opcode] = op
      [] OTHER ->
            CHOOSE opcode \in DOMAIN IndexOpcodes : IndexOpcodes[opcode] = op

\* The bytes of the binary format for a body: every instruction, then the
\* byte last.  An If whose else-body is empty is written without 0x05, its
\* then-body ended by 0x0B; any other If is written with 0x05 between the
\* bodies.  Every block type is 0x40.
RECURSIVE EncodeInstructions(_, _)
EncodeInstructions(body, last) ==
    IF body = <<>> THEN <<last>>
    ELSE LET instruction == Head(body)
             op == instruction.op
             bytes ==
                 CASE op \in {"Block", "Loop"} ->
                        <<IF op = "Block" THEN 2 ELSE 3, 64>>
                            \o EncodeInstructions(instruction.body, 11)
                   [] op = "If" ->
                        IF instruction.else_body = <<>>
                        THEN <<4, 64>> \o EncodeInstructions(instruction.body, 11)
                        ELSE <<4, 64>> \o EncodeInstructions(instruction.body, 5)
                                 \o EncodeInstructions(instruction.else_body, 11)
                   [] op \in {"I32Load", "I32Store"} ->
                        <<OpcodeOf(op)>> \o EncodeU32(instruction.align)
                            \o EncodeU32(instruction.arg)
                   [] op = "I32Const" -> <<65>> \o EncodeI32(instruction.arg)
                   [] op = "F64Const" -> <<68>> \o instruction.arg
                   [] op \in {IndexOpcodes[opcode] : opcode \in DOMAIN IndexOpcodes} ->
                        <<OpcodeOf(op)>> \o EncodeU32(instruction.arg)
                   [] OTHER -> <<OpcodeOf(op)>>
         IN  bytes \o EncodeInstructions(Tail(body), last)

EncodeBody(body) == EncodeInstructions(body, 11)

\* Instructions without a body; their immediates hold the bytes of the
\* sentinels (0x05, 0x0B) and of the opcodes of Block, Loop and If.
BodyAtoms ==
    {I32Add,
     Branch(11),
     I32Const(11),
     MemArg(I32Load(11), 2),
     F64Const(<<11, 5, 2, 3, 4, 64, 11, 0>>)}

\* The bodies nested in a Block, a Loop or an If.
NestedBodies ==
    {<<>>,
     <<I32Const(5)>>,
     <<Block(<<LocalGet(5)>>), Return>>}

StructuredInstructions ==
    {Block(body) : body \in NestedBodies}
    \cup {Loop(body) : body \in NestedBodies}
    \cup {If(body, else_body) : body \in NestedBodies, else_body \in NestedBodies}

Bodies == SeqsUpTo(BodyAtoms \cup StructuredInstructions, MaxBody)

\* The bodies written into Code entries.
CodeBodies == {<<>>, <<I32Const(11), I32Add>>}

\* Local declarations (n, t): none, one and three locals of type i32 (0x7F)
\* and f64 (0x7C).
Declarations ==
    SeqsUpTo({<<n, t>> : n \in {0, 1, 3}, t \in {127, 124}}, MaxDeclarations)

\* The bytes of a vector of local declarations.
EncodeLocals(declarations) ==
    <<Len(declarations)>>
        \o Concat([i \in 1..Len(declarations) |-> declarations[i]])

\* The bytes of a Code entry that declares its size to be off by delta.
EncodeCode(declarations, body, delta) ==
    LET contents == EncodeLocals(declarations) \o EncodeBody(body)
    IN  <<Len(contents) + delta>> \o contents

\* The files written from a body: the body itself, a short body followed
\* by one more byte, a short body with 0x05 before its 0x0B and, for the
\* bodies of Code entries, entries with every declaration, with the right
\* size and with a size one less and one more.
FilesOf(body) ==
    {EncodeBody(body)}
    \cup (IF Len(body) < MaxBody
          THEN {EncodeBody(body) \o <<11>>, EncodeInstructions(body, 5) \o <<11>>}
          ELSE {})
    \cup IF body \in CodeBodies
         THEN {EncodeCode(declarations, body, delta) :
                    declarations \in Declarations, delta \in {0, 1, -1}}
         ELSE {}

BodyInit ==
    /\ module_functions = <<>>
    /\ extern_functions = <<>>
    /\ locals = <<>>
    /\ init_stack = <<>>
    /\ stack = <<>>
    /\ memory = ZeroMemory
    /\ frames = <<>>
    /\ flow = CfExec
    /\ status = "idle"
    /\ result = CfNone
    /\ host_calls = <<>>
    /\ steps = 0
    /\ before = <<>>
    /\ overflow_checks \in BOOLEAN
    /\ code \in Bodies
    /\ file \in FilesOf(code)
    /\ stream_position = 0
    /\ sections = <<>>
    /\ parsed = [r |-> "Start", v |-> <<>>, of |-> "none"]
    /\ last_section = <<>>

\* Vec::<Instruction>::parse(file)
ReadInstructions == Read(ParseInstructions(stream_position), "Vec<Instruction>")

\* Code::parse(file)
ReadCode == Read(ParseCode(stream_position), "Code")

BodyNext == ReadInstructions \/ ReadCode

BodySpec == BodyInit /\ [][BodyNext]_vars

(***************************************************************************)
(* The interpreter of src/lib.rs: Machine::execute, as the recursive       *)
(* function it is.  A run is a record of the stack, the memory and the     *)
(* host calls made, its status ("running", "panic" after a panic, "fuel"   *)
(* when it was cut off), the instructions and loop rounds it may still     *)
(* take (fuel) and, once execute has returned, the value it returned.      *)
(***************************************************************************)
\* Option<ControlFlow> of lib.rs: None, Some(Return), Some(Break(level)).
LibNone == [t |-> "None", n |-> 0]

LibReturn == [t |-> "Return", n |-> 0]

LibBreak(level) == [t |-> "Break", n |-> level]

ModuleFunction(param_count, function_code) ==
    [param_count |-> param_count, code |-> function_code]

\* The variant of lib.rs Instruction for a variant of wasm Instruction.
LibOp(op) ==
    CASE op = "I32Const" -> "Const"
      [] op = "I32Load" -> "Load"
      [] op = "I32Store" -> "Store"
      [] op = "I32Add" -> "Add"
      [] op = "I32Sub" -> "Sub"
      [] op = "I32Mul" -> "Mul"
      [] op = "I32Eq" -> "Eq"
      [] op = "Branch" -> "Break"
      [] op = "BranchIf" -> "BreakIf"
      [] OTHER -> op

\* A body as lib.rs instructions: Load and Store hold the offset of the
\* MemArg as their address, Block and Loop no block type.
RECURSIVE AsLibCode(_)
AsLibCode(body) ==
    [i \in DOMAIN body |->
        [op |-> LibOp(body[i].op), arg |-> body[i].arg,
         body |-> AsLibCode(body[i].body)]]

\* The module functions as ModuleFunction {param_count, code}, param_count
\* the number of parameter types of the Func.
LibFunctions ==
    [i \in DOMAIN module_functions |->
        ModuleFunction(module_functions[i].param_count,
                       AsLibCode(module_functions[i].body))]

LibPanic(run) == [run EXCEPT !.status = "panic"]

LibPush(run, value) == [run EXCEPT !.stack = Append(@, value)]

\* Add, Sub, Mul, Eq: pop right, pop left, push.
LibBinary(run, op) ==
    IF Len(run.stack) < 2 THEN LibPanic(run)
    ELSE LET right == run.stack[Len(run.stack)]
             left == run.stack[Len(run.stack) - 1]
             popped == [run EXCEPT !.stack = SubSeq(@, 1, Len(@) - 2)]
         IN  CASE op = "Add" ->
                    IF overflow_checks /\ AddOverflows(left, right)
                    THEN LibPanic(popped)
                    ELSE LibPush(popped, WrappingAdd(left, right))
               [] op = "Sub" ->
                    IF overflow_checks /\ SubOverflows(left, right)
                    THEN LibPanic(popped)
                    ELSE LibPush(popped, WrappingSub(left, right))
               [] op = "Mul" ->
                    IF overflow_checks /\ MulOverflows(left, right)
                    THEN LibPanic(popped)
                    ELSE LibPush(popped, WrappingMul(left, right))
               [] OTHER -> LibPush(popped, IF left = right THEN 1 ELSE 0)

\* ExternFunction::call of lib.rs.
LibExternCall(run, index) ==
    LET extern == extern_functions[index + 1]
        args == SplitOff(run.stack, extern.param_count)
        returned == CallbackResult(extern.fun, args)
        called == [run EXCEPT !.stack = SplitOffRest(@, extern.param_count),
                              !.host_calls = Append(@, [index |-> index,
                                                        args |-> args])]
    IN  IF Len(run.stack) < extern.param_count THEN LibPanic(run)
        ELSE IF returned.panic THEN LibPanic(called)
        ELSE IF returned.some THEN LibPush(called, returned.value)
        ELSE called

\* A Block or Loop arm that returns the Break it got as it is.
UnwoundNot(returned) == returned

\* Some(ControlFlow::Break(level - 1)), for the Break(level) a body
\* returned, level > 0.
Unwound(returned) == LibBreak(returned.n - 1)

RECURSIVE ExecuteFrom(_, _, _, _)
RECURSIVE ExecuteLoop(_, _, _)

\* ModuleFunction::call: the run after the body of the function.
ModuleFunctionCall(function, run) ==
    IF Len(run.stack) < function.param_count THEN LibPanic(run)
    ELSE ExecuteFrom(function.code, 1,
                     SplitOff(run.stack, function.param_count),
                     [run EXCEPT !.stack = SplitOffRest(@, function.param_count)])

\* The loop of the Loop arm: execute the body until it returns Return or
\* a Break of a level above 0, which the arm returns.
ExecuteLoop(loop_code, lib_locals, run) ==
    IF run.fuel = 0 THEN [run EXCEPT !.status = "fuel"]
    ELSE Only({IF inner.status # "running" \/ inner.returned = LibReturn
               THEN inner
               ELSE IF inner.returned.t = "Break" /\ inner.returned.n > 0
               THEN [inner EXCEPT !.returned = Unwound(inner.returned)]
               ELSE ExecuteLoop(loop_code, lib_locals, inner) :
                 inner \in {ExecuteFrom(loop_code, 1, lib_locals,
                                        [run EXCEPT !.fuel = @ - 1])}})

\* Machine::execute from the i-th instruction of code on.
ExecuteFrom(code_left, i, lib_locals, run) ==
    IF run.status # "running" THEN run
    ELSE IF i > Len(code_left) THEN [run EXCEPT !.returned = LibNone]
    ELSE IF run.fuel = 0 THEN [run EXCEPT !.status = "fuel"]
    ELSE LET instruction == code_left[i]
             op == instruction.op
             spent == [run EXCEPT !.fuel = @ - 1]
             GoOn(after) == ExecuteFrom(code_left, i + 1, lib_locals, after)
         IN  CASE op = "Const" -> GoOn(LibPush(spent, instruction.arg))
               [] op = "Load" ->
                    IF instruction.arg < Len(spent.memory)
                    THEN GoOn(LibPush(spent, spent.memory[instruction.arg + 1]))
                    ELSE LibPanic(spent)
               [] op = "Store" ->
                    IF spent.stack = <<>> \/ instruction.arg >= Len(spent.memory)
                    THEN LibPanic(spent)
                    ELSE GoOn([spent EXCEPT
                                 !.stack = Pop(@),
                                 !.memory[instruction.arg + 1] = Last(spent.stack)])
               [] op \in {"Add", "Sub", "Mul", "Eq"} -> GoOn(LibBinary(spent, op))
               [] op = "LocalGet" ->
                    IF instruction.arg < Len(lib_locals)
                    THEN GoOn(LibPush(spent, lib_locals[instruction.arg + 1]))
                    ELSE LibPanic(spent)
               [] op = "Call" ->
                    IF instruction.arg < Len(LibFunctions)
                    THEN GoOn(ModuleFunctionCall(LibFunctions[instruction.arg + 1],
                                                 spent))
                    ELSE IF instruction.arg - Len(LibFunctions) < Len(extern_functions)
                    THEN GoOn(LibExternCall(spent,
                                            instruction.arg - Len(LibFunctions)))
                    ELSE LibPanic(spent)
               [] op = "Return" -> [spent EXCEPT !.returned = LibReturn]
               [] op = "Break" -> [spent EXCEPT !.returned = LibBreak(instruction.arg)]
               [] op = "BreakIf" ->
                    IF spent.stack = <<>> THEN LibPanic(spent)
                    ELSE IF Last(spent.stack) # 0
                    THEN [spent EXCEPT !.stack = Pop(@),
                                       !.returned = LibBreak(instruction.arg)]
                    ELSE GoOn([spent EXCEPT !.stack = Pop(@)])
               [] op = "Block" ->
                    Only({IF inner.status # "running" \/ inner.returned = LibReturn
                          THEN inner
                          ELSE IF inner.returned.t = "Break" /\ inner.returned.n > 0
                          THEN [inner EXCEPT !.returned = Unwound(inner.returned)]
                          ELSE GoOn(inner) :
                            inner \in {ExecuteFrom(instruction.body, 1,
                                                   lib_locals, spent)}})
               [] op = "Loop" -> ExecuteLoop(instruction.body, lib_locals, spent)

(***************************************************************************)
(* Properties.                                                             *)
(***************************************************************************)
\* The frames of before once its innermost invoke is gone.
CallerFrames == Pop(before.frames)

\* The same, the caller having moved to the instruction after the one that
\* started the invoke.
CallerContinues ==
    [Pop(before.frames) EXCEPT ![Len(before.frames) - 1].pc = @ + 1]

\* The last step left stack, memory and host calls alone and did not panic.
DataUnchanged ==
    /\ stack = before.stack
    /\ memory = before.memory
    /\ host_calls = before.host_calls
    /\ status = "running"

\* C1: when the body of a Block has returned, Return makes the enclosing
\* body return Return at once, Branch(0) and a normal end let the enclosing
\* body go on with the instruction after the Block, and Branch(k), k > 0,
\* makes the enclosing body return Branch(k - 1) at once.
C1_BlockResult ==
    steps > 0 /\ Returned(before, "Block") =>
        /\ DataUnchanged
        /\ CASE before.flow = CfReturn ->
                  frames = CallerFrames /\ flow = CfReturn
             [] before.flow \in {CfNone, CfBranch(0)} ->
                  frames = CallerContinues /\ flow = CfExec
             [] OTHER ->
                  frames = CallerFrames /\ flow = CfBranch(before.flow.n - 1)

\* The outcome of the test nested_break_double: the Block's body branched
\* past the Block, so the push after the Block never ran.
C1_Witness ==
    /\ status = "done"
    /\ Len(code) = 3
    /\ code[2].op = "Block"
    /\ result = CfBranch(0)
    /\ stack = <<42>>

\* A loop body made of pushes and of branches to the loop itself.
NeverLeaves(body) ==
    \A i \in 1..Len(body) :
        \/ body[i].op = "I32Const"
        \/ body[i].op \in {"Branch", "BranchIf"} /\ body[i].arg = 0

\* C2: when the body of a Loop has ended normally or with Branch(0) the
\* body runs again from its first instruction; Return makes the enclosing
\* body return Return and Branch(k), k > 0, makes it return Branch(k - 1);
\* a Loop whose body produces neither is never left.
C2_LoopResult ==
    /\ steps > 0 /\ Returned(before, "Loop") =>
          /\ DataUnchanged
          /\ CASE before.flow \in {CfNone, CfBranch(0)} ->
                    /\ frames = [before.frames EXCEPT ![Len(before.frames)].pc = 1]
                    /\ flow = CfExec
               [] before.flow = CfReturn ->
                    frames = CallerFrames /\ flow = CfReturn
               [] OTHER ->
                    frames = CallerFrames /\ flow = CfBranch(before.flow.n - 1)
    /\ Len(code) = 3 /\ code[2].op = "Loop" /\ NeverLeaves(code[2].body)
          => status # "done"

\* A Loop directly in the outermost body is at the start of its body again
\* after its body ended with Branch(0).
C2_Witness ==
    /\ status = "running"
    /\ Len(frames) = 2
    /\ frames[2].kind = "Loop"
    /\ frames[2].code = <<I32Const(43), Branch(0)>>
    /\ frames[2].pc = 1
    /\ stack = <<42, 43, 43>>

\* C3: whatever the body of a called module function returns, the caller
\* goes on with the instruction after the Call, and a body made of calls
\* and pushes returns no control flow of its own.
C3_CallTrapsControlFlow ==
    /\ steps > 0 /\ Returned(before, "Call") =>
          /\ DataUnchanged
          /\ frames = CallerContinues
          /\ flow = CfExec
    /\ status = "done" /\ code \in CallBodies => result = CfNone

\* The callee branched two labels out, further than it is nested, and
\* the caller still ran the push after the Call.
C3_Witness ==
    /\ status = "done"
    /\ code = <<Call(0), I32Const(45)>>
    /\ module_functions = <<Func(0, 0, <<I32Const(7), Branch(2), I32Const(9)>>)>>
    /\ stack = <<7, 45>>
    /\ result = CfNone

\* The last step was the arm of an instruction op.
Did(op) == steps > 0 /\ AtInstruction(before) /\ Current(before).op = op

\* The function index of the Call the last step ran.
CalledIndex == Current(before).arg

\* The first n entries of a sequence are those of another.
SamePrefix(seq, other, n) == \A i \in 1..n : seq[i] = other[i]

\* The last n entries of the stack before the step, deepest first.
Arguments(n) == [i \in 1..n |-> before.stack[Len(before.stack) - n + i]]

\* C4: a Call of a module function with param_count = n on a stack of at
\* least n values takes the top n values off the stack before the first
\* instruction of the callee runs; they are the callee's locals in pushed
\* order (locals[0] the deepest, locals[n-1] the former top), and the
\* entries below them stay as they were.
C4_ModuleCallArguments ==
    Did("Call") /\ CalledIndex < Len(module_functions) =>
        LET func == module_functions[CalledIndex + 1]
            n == func.param_count
        IN  Len(before.stack) >= n =>
                /\ status = "running"
                /\ flow = CfExec
                /\ Len(frames) = Len(before.frames) + 1
                /\ Top(Machine).kind = "Call"
                /\ Top(Machine).code = func.body
                /\ Top(Machine).pc = 1
                /\ Top(Machine).locals = Arguments(n)
                /\ Len(stack) = Len(before.stack) - n
                /\ SamePrefix(stack, before.stack, Len(stack))
                /\ memory = before.memory
                /\ host_calls = before.host_calls

\* The test call_module_function_with_args on a stack that holds 9 below
\* the two arguments.
C4_Witness ==
    /\ Did("Call")
    /\ before.stack = <<9, 5, 3>>
    /\ stack = <<9>>
    /\ Len(frames) = 2
    /\ frames[2].kind = "Call"
    /\ frames[2].pc = 1
    /\ frames[2].locals = <<5, 3>>

\* The host function the last step's Call stands for.
CalledExtern == extern_functions[CalledIndex - Len(module_functions) + 1]

\* C5: a Call of a host function with param_count = n on a stack of at
\* least n values pops exactly n values, invokes the callback once on them
\* in pushed order and pushes its value if it returned one and nothing
\* otherwise; the entries below the arguments stay as they were.
C5_ExternCallArguments ==
    /\ Did("Call")
    /\ CalledIndex >= Len(module_functions)
    /\ CalledIndex < Len(module_functions) + Len(extern_functions)
    =>
        LET n == CalledExtern.param_count
            returned == CallbackResult(CalledExtern.fun, Arguments(n))
            below == SubSeq(before.stack, 1, Len(before.stack) - n)
        IN  Len(before.stack) >= n =>
                /\ host_calls =
                     Append(before.host_calls,
                            [index |-> CalledIndex - Len(module_functions),
                             args |-> Arguments(n)])
                /\ memory = before.memory
                /\ ~returned.panic =>
                     /\ status = "running"
                     /\ frames = [before.frames EXCEPT
                                     ![Len(before.frames)].pc = @ + 1]
                     /\ stack = IF returned.some
                                THEN Append(below, returned.value)
                                ELSE below

\* The test call_extern_function_with_args on a stack that holds 9 below
\* the two arguments.
C5_Witness ==
    /\ Did("Call")
    /\ before.stack = <<9, 5, 3>>
    /\ CalledIndex >= Len(module_functions)
    /\ host_calls = <<[index |-> CalledIndex - Len(module_functions),
                       args |-> <<5, 3>>]>>
    /\ stack = <<9, 2>>

\* C6: a Call whose index is below module_functions.len() starts that
\* module function and invokes no host callback; an index from there up to
\* the end of the host table invokes the host callback at the index less
\* module_functions.len(), and no other, and starts no module function
\* (the stack holding the function's arguments).
C6_FunctionIndexSpace ==
    Did("Call") =>
        /\ CalledIndex < Len(module_functions)
           /\ Len(before.stack) >= module_functions[CalledIndex + 1].param_count
           =>
              /\ Len(frames) = Len(before.frames) + 1
              /\ Top(Machine).kind = "Call"
              /\ Top(Machine).code = module_functions[CalledIndex + 1].body
              /\ host_calls = before.host_calls
        /\ CalledIndex >= Len(module_functions)
           /\ CalledIndex < Len(module_functions) + Len(extern_functions)
           /\ Len(before.stack) >= CalledExtern.param_count
           =>
              /\ Len(frames) = Len(before.frames)
              /\ Len(host_calls) = Len(before.host_calls) + 1
              /\ SamePrefix(host_calls, before.host_calls, Len(before.host_calls))
              /\ Last(host_calls).index = CalledIndex - Len(module_functions)

\* Call(2) with one module function and two host functions ran the second
\* host function.
C6_Witness ==
    /\ Did("Call")
    /\ CalledIndex = 2
    /\ module_functions = <<AnswerFunc>>
    /\ extern_functions = <<ExternFunction(0, "none"), ExternFunction(0, "answer")>>
    /\ host_calls = <<[index |-> 1, args |-> <<>>]>>
    /\ stack = Append(before.stack, 42)

\* The value the arithmetic instruction op pushes under wrapping at 32 bits.
Wrapped(op, left, right) ==
    CASE op = "I32Add" -> WrappingAdd(left, right)
      [] op = "I32Sub" -> WrappingSub(left, right)
      [] OTHER -> WrappingMul(left, right)

\* C7: I32Add, I32Sub and I32Mul on any two i32 operands push the
\* mathematical result reduced modulo 2^32 into the signed 32-bit range, and
\* the interpreter never panics because of arithmetic overflow.
C7_ArithmeticWraps ==
    /\ steps > 0
    /\ AtInstruction(before)
    /\ Current(before).op \in {"I32Add", "I32Sub", "I32Mul"}
    /\ Len(before.stack) >= 2
    =>
        /\ status = "running"
        /\ stack = Append(SubSeq(before.stack, 1, Len(before.stack) - 2),
                          Wrapped(Current(before).op, Left(before), Right(before)))

\* C8: BranchIf(n) on a non-empty stack pops exactly one value; a non-zero
\* value ends the body with Branch(n), and a body that has ended runs no
\* further instruction; a zero value goes on with the next instruction and
\* produces no control flow.
C8_BranchIf ==
    /\ Did("BranchIf") /\ before.stack # <<>> =>
          /\ status = "running"
          /\ stack = Pop(before.stack)
          /\ memory = before.memory
          /\ host_calls = before.host_calls
          /\ IF Last(before.stack) # 0
             THEN flow = CfBranch(Current(before).arg) /\ frames = before.frames
             ELSE /\ flow = CfExec
                  /\ frames = [before.frames EXCEPT ![Len(before.frames)].pc = @ + 1]
    /\ steps > 0 /\ before.status = "running" /\ before.flow # CfExec =>
          /\ stack = before.stack
          /\ memory = before.memory
          /\ host_calls = before.host_calls
          /\ status # "panic"
          /\ Len(frames) < Len(before.frames) \/ Top(Machine).pc = 1
    /\ /\ status # "running"
       /\ code # <<>>
       /\ code[1].op = "BranchIf"
       /\ init_stack # <<>>
       =>
          IF Last(init_stack) # 0
          THEN /\ status = "done"
               /\ result = CfBranch(code[1].arg)
               /\ stack = Pop(init_stack)
               /\ memory = ZeroMemory
               /\ host_calls = <<>>
          ELSE Len(code) = 1 => status = "done" /\ result = CfNone
                                /\ stack = Pop(init_stack)

\* BranchIf(0) took the 3 off the stack and ended the body before its push.
C8_Witness ==
    /\ status = "done"
    /\ code = <<BranchIf(0), I32Const(1)>>
    /\ init_stack = <<5, 3>>
    /\ stack = <<5>>
    /\ result = CfBranch(0)

IsJump(instruction) == instruction.op \in {"Return", "Branch"}

\* What invoke returns when it meets the unconditional jump.
JumpFlow(instruction) ==
    IF instruction.op = "Return" THEN CfReturn ELSE CfBranch(instruction.arg)

\* The machine a run of the program starts from.
InitialData == Start(<<>>, init_stack, ZeroMemory, locals)

\* The machine after invoke(body, ...) on the stack, memory and host calls
\* of a machine m that has stopped.
Finish(body, m) ==
    Run([Start(body, m.stack, m.memory, locals) EXCEPT !.host_calls = m.host_calls],
        MaxSteps)

SameData(m) ==
    /\ stack = m.stack
    /\ memory = m.memory
    /\ host_calls = m.host_calls

\* invoke(body, ...) on m ran to the end of body.
RanThrough(m) == m.status = "done" /\ m.result = CfNone

\* The program has an unconditional jump at position i: it ends as its
\* first i - 1 instructions do, and returns the jump if they ran through.
PrefixAtTopLevel(i) ==
    LET prefix == Finish(SubSeq(code, 1, i - 1), InitialData)
    IN  /\ SameData(prefix)
        /\ status = prefix.status
        /\ status = "done" =>
              result = IF prefix.result = CfNone THEN JumpFlow(code[i])
                       ELSE prefix.result

\* The program has a Block at position j whose body has an unconditional
\* jump at position i that is taken: Branch(0) ends as the body's first
\* i - 1 instructions followed by the rest of the program do; Return and
\* Branch(k), k > 0, end as the body's first i - 1 instructions do, and the
\* program returns Return or Branch(k - 1).
PrefixInBlock(j, i) ==
    LET body == code[j].body
        outer == Finish(SubSeq(code, 1, j - 1), InitialData)
        inner == Finish(SubSeq(body, 1, i - 1), outer)
        rest == Finish(SubSeq(code, j + 1, Len(code)), inner)
    IN  RanThrough(outer) /\ RanThrough(inner) =>
            IF body[i] = Branch(0)
            THEN SameData(rest) /\ status = rest.status /\ result = rest.result
            ELSE /\ SameData(inner)
                 /\ status = "done"
                 /\ result = IF body[i].op = "Return" THEN CfReturn
                             ELSE CfBranch(body[i].arg - 1)

\* C9: the instructions after a taken Return or Branch of a body never
\* run: a program with an unconditional jump at position i ends with the
\* stack, memory and host calls of its first i - 1 instructions run once
\* and returns the jump; a jump in the body of a Block ends the Block after
\* the body's first i - 1 instructions, and a Return there also keeps the
\* instructions after the Block from running.
C9_NothingRunsAfterJump ==
    status # "running" =>
        /\ \A i \in 1..Len(code) : IsJump(code[i]) => PrefixAtTopLevel(i)
        /\ \A j \in 1..Len(code) :
              code[j].op = "Block" =>
                  \A i \in 1..Len(code[j].body) :
                      IsJump(code[j].body[i]) => PrefixInBlock(j, i)

\* A Return in a Block left neither the 43 after it nor the 45 after the
\* Block on the stack.
C9_Witness ==
    /\ status = "done"
    /\ code = <<I32Const(42), Block(<<Return, I32Const(43)>>), I32Const(45)>>
    /\ stack = <<42>>
    /\ result = CfReturn

\* The steps the counting loop to bound takes: 3 to start the loop, 11 for
\* each round that pushes and increments, and 6 for the round that leaves.
CountingSteps(bound) == 9 + 11 * bound

\* C10: from an empty stack and zero memory the counting loop to N stops,
\* for every N from 0, after N rounds of its push-and-increment part: the
\* stack is N copies of 42 and memory cell 0 is N.
C10_CountingLoop ==
    \A bound \in 0..MaxCount :
        code = CountingLoop(bound) /\ init_stack = <<>> =>
            /\ status # "panic"
            /\ steps >= CountingSteps(bound) => status = "done"
            /\ status = "running" =>
                  /\ memory[1] <= bound
                  /\ Len(stack) <= memory[1] + 3
            /\ status = "done" =>
                  /\ steps = CountingSteps(bound)
                  /\ stack = [i \in 1..bound |-> 42]
                  /\ memory = [ZeroMemory EXCEPT ![1] = bound]
                  /\ host_calls = <<>>
                  /\ result = CfBranch(0)

\* The test loop_statement: four rounds.
C10_Witness ==
    /\ status = "done"
    /\ code = CountingLoop(4)
    /\ stack = <<42, 42, 42, 42>>
    /\ memory[1] = 4

\* C11: Block, Loop and If each introduce exactly one label scope: a
\* Branch(k), k > 0, that leaves the body of a Block or Loop goes on as
\* Branch(k - 1), and an If on a stack that holds its condition starts one
\* of its two bodies as a nested body, as Block and Loop do.
C11_LabelScopes ==
    /\ /\ steps > 0
       /\ Returned(before, "Block") \/ Returned(before, "Loop")
       /\ before.flow.t = "Branch"
       /\ before.flow.n > 0
       => flow = CfBranch(before.flow.n - 1) /\ frames = CallerFrames
    /\ Did("If") /\ before.stack # <<>> =>
          /\ status = "running"
          /\ Len(frames) = Len(before.frames) + 1
          /\ Top(Machine).code \in {Current(before).body, Current(before).else_body}
          /\ Top(Machine).pc = 1

\* How many values the instruction m is at takes off the stack.
Needs(m) ==
    LET instruction == Current(m)
        function_index == instruction.arg - Len(module_functions)
    IN  CASE instruction.op \in {"I32Add", "I32Sub", "I32Mul", "I32Eq"} -> 2
          [] instruction.op \in {"I32Store", "BranchIf"} -> 1
          [] instruction.op = "Call" ->
               IF instruction.arg < Len(module_functions)
               THEN module_functions[instruction.arg + 1].param_count
               ELSE IF function_index < Len(extern_functions)
               THEN extern_functions[function_index + 1].param_count
               ELSE 0
          [] OTHER -> 0

\* The instruction m is at cannot be executed.
Violates(m) ==
    LET instruction == Current(m)
    IN  \/ Len(m.stack) < Needs(m)
        \/ instruction.op = "LocalGet" /\ instruction.arg >= Len(Top(m).locals)
        \/ instruction.op \in {"I32Load", "I32Store"} /\ instruction.arg >= MemorySize
        \/ instruction.op = "Unreachable"
        \/ /\ instruction.op = "Call"
           /\ instruction.arg >= Len(module_functions) + Len(extern_functions)

\* C12: an instruction whose precondition is violated (too few values on
\* the stack, a local or memory cell that does not exist, Unreachable, a
\* function index past both tables) panics: the machine neither goes on to
\* another instruction nor returns a value, and it calls no host function.
C12_ViolationsPanic ==
    /\ steps > 0 /\ AtInstruction(before) /\ Violates(before) =>
          /\ status = "panic"
          /\ frames = before.frames
          /\ flow = CfExec
          /\ result = CfNone
          /\ memory = before.memory
          /\ host_calls = before.host_calls
    /\ status = "panic" => result = CfNone /\ flow = CfExec /\ frames # <<>>

\* LocalGet(2) on a frame of two locals.
C12_Witness ==
    /\ status = "panic"
    /\ Did("LocalGet")
    /\ Current(before).arg = 2
    /\ Len(Top(before).locals) = 2
    /\ stack = before.stack

\* The position after the first byte of the file without continuation
\* bit, or 0 when the file has none.
RECURSIVE TerminatorFrom(_)
TerminatorFrom(i) ==
    IF i > Len(file) THEN 0
    ELSE IF file[i] < 128 THEN i
    ELSE TerminatorFrom(i + 1)

\* The sum of (b_i AND 0x7f) * 2^(7i) over the first n bytes of the file,
\* reduced to 32 bits.
RECURSIVE GroupSum(_)
GroupSum(n) ==
    IF n = 0 THEN 0
    ELSE WrappingAdd(GroupSum(n - 1),
                     WrappingMul(file[n] % 128, 2 ^ (7 * (n - 1))))

\* C17: parse_leb128_i32 undoes the canonical signed LEB128 encoding: on
\* the encoding of any i32 v it returns v and consumes exactly the bytes
\* of the encoding (0x7E is -2, 0x40 is -64, 0x80 0x7F is -128).
C17_SignedLebRoundTrip ==
    parsed.of = "i32" =>
        \A v \in LebValues :
            file = EncodeI32(v) =>
                /\ parsed.r = "Ok"
                /\ parsed.v = v
                /\ stream_position = Len(file)

\* C18: on a file that starts with at most 5 bytes of which the last alone
\* has no continuation bit, parse_leb128_u32 consumes exactly those bytes
\* and returns the sum of their 7-bit groups, the i-th times 2^(7i),
\* reduced to 32 bits; the canonical encoding of a u32 gives that u32.
C18_UnsignedLeb ==
    parsed.of = "u32" =>
        /\ TerminatorFrom(1) \in 1..5 =>
              /\ parsed.r = "Ok"
              /\ stream_position = TerminatorFrom(1)
              /\ parsed.v = GroupSum(TerminatorFrom(1))
        /\ \A word \in LebValues :
              file = EncodeU32(word) =>
                  /\ parsed.r = "Ok"
                  /\ parsed.v = word
                  /\ stream_position = Len(file)

\* The five bytes of the u32 of 32 one bits.
C18_Witness ==
    /\ parsed.of = "u32"
    /\ file = <<255, 255, 255, 255, 15>>
    /\ parsed.r = "Ok"
    /\ parsed.v = -1
    /\ stream_position = 5

\* Section::parse has returned at least once in the loop of parse_sections.
SectionReturned == DOMAIN last_section # {}

\* The id and the declared size in the header of the last section read.
LastId == last_section.header.v[1]

LastSize == last_section.header.v[2]

\* C13: when Section::parse returns a section, the cursor is at the
\* position just after the header (id byte and size) plus the declared
\* size, for the sections with a body parser (ids 1, 2, 3, 5, 6, 7, 10)
\* and for those skipped by a seek (ids 0, 4, 8, 9, 11).
C13_CursorAdvancesBySize ==
    SectionReturned /\ last_section.r = "Ok" =>
        /\ last_section.header.r = "Ok"
        /\ LastId \in 0..11
        /\ last_section.stop = last_section.header.pos + LastSize
        /\ stream_position = last_section.stop

\* A skipped Custom section of three bytes, then a Code section.
C13_Witness ==
    /\ SectionReturned
    /\ last_section.r = "Ok"
    /\ Len(sections) = 2
    /\ sections[1].variant = "Custom"
    /\ sections[2].variant = "Code"
    /\ LastId = 10
    /\ LastSize > 0
    /\ last_section.at = 13
    /\ stream_position = Len(file)

\* C14: Module::parse returns Ok only when the file ends exactly where the
\* id byte of a section would be read; a file that ends anywhere inside a
\* section makes it return Err.
C14_EofOnlyAtBoundary ==
    /\ parsed.r = "Ok" =>
          /\ SectionReturned
          /\ last_section.r = "Eof"
          /\ last_section.at = Len(file)
    /\ SectionReturned /\ last_section.r = "Eof" /\ last_section.at # Len(file) =>
          parsed.r = "Err"

\* What the last Section::parse gives when the declared size of the section
\* is not compared with the bytes its body parser read.
LastUnsized == ParseSectionUnsized(last_section.at)

\* The last Section::parse met a size that differs from the bytes read: of
\* a section with a body parser, or of a Code entry.
SizeMismatch ==
    /\ SectionReturned
    /\ \/ /\ LastUnsized.r = "Ok"
          /\ LastId \in DOMAIN SectionItems
          /\ LastUnsized.pos - last_section.header.pos # LastSize
       \/ /\ LastUnsized.r = "Panic"
          /\ LastUnsized.v.text = "assertion failed: left == right"

\* C15: when the bytes read by the body parser of a section differ from
\* the declared size of the section, or the bytes read for a Code entry
\* from its declared size, Module::parse returns Err with a message: it
\* returns no Module and the process goes on.
C15_SizeMismatchIsErr ==
    SizeMismatch =>
        /\ parsed.r = "Err"
        /\ parsed.v.text = "assertion failed: left == right"

\* Module::parse ended at the arm of Vec<Instruction>::parse for an opcode
\* outside the table.
MetUnknownOpcode ==
    /\ SectionReturned
    /\ parsed.r \in {"Err", "Panic"}
    /\ parsed.v.text = "Unsupported opcode found"

\* C16: an opcode outside the table, met in an instruction body, makes
\* Module::parse return Err with the file position of the opcode byte and
\* the instructions decoded so far in that body; it returns no Module.
C16_UnknownOpcodeIsErr ==
    MetUnknownOpcode =>
        /\ parsed.r = "Err"
        /\ file[parsed.v.value.stream_pos + 1] = parsed.v.value.opcode
        /\ parsed.v.value.opcode \notin Opcodes \cup {5, 11}

\* The file starts with the magic 0x00 0x61 0x73 0x6D and the version
\* 0x01 0x00 0x00 0x00.
StartsWithPreamble ==
    /\ Len(file) >= 8
    /\ SubSeq(file, 1, 8) = <<0, 97, 115, 109, 1, 0, 0, 0>>

\* C19: Module::parse returns Ok only for a file whose first eight bytes
\* are the magic and the version, and the preamble of the Module holds
\* exactly those; for a wrong magic, a wrong version or a file of fewer
\* than eight bytes it returns Err before any section is read.
C19_PreambleChecked ==
    /\ parsed.r = "Ok" =>
          /\ StartsWithPreamble
          /\ parsed.v.preamble = [magic |-> <<0, 97, 115, 109>>,
                                  version |-> <<1, 0, 0, 0>>]
    /\ parsed.r # "Start" /\ ~StartsWithPreamble =>
          /\ parsed.r = "Err"
          /\ ~SectionReturned
          /\ sections = <<>>
          /\ stream_position <= 8

\* The right magic with version 2, and a Function section behind it.
C19_Witness ==
    /\ parsed.r = "Err"
    /\ parsed.v.text = "Invalid version"
    /\ SubSeq(file, 1, 8) = <<0, 97, 115, 109, 2, 0, 0, 0>>
    /\ Len(file) > 8
    /\ stream_position = 8
    /\ ~SectionReturned

\* C20: in every Module that Module::parse returns, codes and functions
\* have the same length, whatever Function and Code sections the file
\* holds or leaves out.
C20_CodesMatchFunctions ==
    parsed.r = "Ok" => Len(parsed.v.codes) = Len(parsed.v.functions)

\* The bytes the body code is written as.
Written == EncodeBody(code)

\* Vec<Instruction>::parse has read a file that starts with the bytes of
\* the body code.
BodyRead ==
    /\ parsed.of = "Vec<Instruction>"
    /\ file \in {Written, Written \o <<11>>}

\* The read gave the body code back and left the cursor just after the
\* 0x0B that ends it.
DecodedAsWritten ==
    /\ parsed.r = "Ok"
    /\ parsed.v = code
    /\ stream_position = Len(Written)

\* C21: opcode 0x04 decodes to If(block type, then-body, else-body): a
\* then-body that ends at 0x05 is followed by an else-body that ends at
\* 0x0B; after a then-body that ends at 0x0B the else-body is empty and
\* the bytes that follow are further instructions of the enclosing body.
C21_IfElseOptional ==
    BodyRead /\ (\E i \in DOMAIN code : code[i].op = "If") => DecodedAsWritten

\* Every If of the body, at any depth, has instructions in its else-body,
\* and so is written with 0x05.
RECURSIVE EveryIfHasElse(_)
EveryIfHasElse(body) ==
    \A i \in DOMAIN body :
        /\ body[i].op = "If" =>
              /\ body[i].else_body # <<>>
              /\ EveryIfHasElse(body[i].else_body)
        /\ body[i].op \in {"Block", "Loop", "If"} => EveryIfHasElse(body[i].body)

EntryRead ==
    /\ parsed.of = "Code"
    /\ parsed.r = "Ok"
    /\ file[2] < 128
    /\ \A i \in 1..file[2] : file[1 + 2 * i] < 128

\* The n and the value type byte of the i-th declaration in the file.
DeclaredN(i) == file[1 + 2 * i]

DeclaredT(i) == file[2 + 2 * i]

\* The sum of the n of the first k declarations.
RECURSIVE DeclaredUpTo(_)
DeclaredUpTo(k) == IF k = 0 THEN 0 ELSE DeclaredUpTo(k - 1) + DeclaredN(k)

\* C22: the locals of a decoded Code entry are as many as the sum of the n
\* of its declarations (n, t), each declaration giving n consecutive copies
\* of t in the order of declaration; and the declared size of the entry is
\* compared with the bytes read from just after the size through the 0x0B
\* of the body, so a returned entry has the size it declares.
C22_LocalsExpanded ==
    EntryRead =>
        /\ Len(parsed.v.locals) = DeclaredUpTo(file[2])
        /\ \A i \in 1..file[2] : \A j \in 1..DeclaredN(i) :
              parsed.v.locals[DeclaredUpTo(i - 1) + j]
                  = (IF DeclaredT(i) = 127 THEN "I32" ELSE "F64")
        /\ file[1] = stream_position - 1
        /\ file[stream_position] = 11

\* Three i32 and one f64 in front of a body of two instructions.
C22_Witness ==
    /\ EntryRead
    /\ file = <<9, 2, 3, 127, 1, 124, 65, 11, 106, 11>>
    /\ parsed.v.locals = <<"I32", "I32", "I32", "F64">>
    /\ parsed.v.body = <<I32Const(11), I32Add>>
    /\ stream_position = 10

\* The cell offset of the instruction the last step ran.
Offset == Current(before).arg

\* C23: I32Load(memarg) pushes memory[memarg.offset] and changes no memory
\* cell; I32Store(memarg) pops the top of the stack, writes it to
\* memory[memarg.offset] and changes no other cell and nothing else on the
\* stack; memarg.align has no part in either.
C23_LoadStore ==
    /\ Did("I32Load") /\ Offset < MemorySize =>
          /\ status = "running"
          /\ flow = CfExec
          /\ stack = Append(before.stack, before.memory[Offset + 1])
          /\ memory = before.memory
          /\ host_calls = before.host_calls
    /\ Did("I32Store") /\ Offset < MemorySize /\ before.stack # <<>> =>
          /\ status = "running"
          /\ flow = CfExec
          /\ stack = Pop(before.stack)
          /\ Len(memory) = Len(before.memory)
          /\ memory[Offset + 1] = Last(before.stack)
          /\ \A cell \in 1..Len(memory) :
                cell # Offset + 1 => memory[cell] = before.memory[cell]
          /\ host_calls = before.host_calls

\* Cell 3 got the 3 and cell 0 the 5; the load with align 2 read cell 3.
C23_Witness ==
    /\ Did("I32Load")
    /\ Current(before).align = 2
    /\ Offset = 3
    /\ init_stack = <<5, 3>>
    /\ memory = [ZeroMemory EXCEPT ![4] = 3, ![1] = 5]
    /\ stack = <<3>>

BinaryOps == {"I32Add", "I32Sub", "I32Mul", "I32Eq"}

\* The operands of the binary instruction the last step ran: the top of
\* the stack is the right one, the value under it the left one.
RightOperand == before.stack[Len(before.stack)]

LeftOperand == before.stack[Len(before.stack) - 1]

\* The last step ran a binary instruction on two operands, and not one
\* that overflows in a build that checks for overflow.
DidBinary ==
    /\ \E op \in BinaryOps : Did(op)
    /\ Len(before.stack) >= 2
    /\ ~(/\ overflow_checks
         /\ \/ Did("I32Add") /\ AddOverflows(LeftOperand, RightOperand)
            \/ Did("I32Sub") /\ SubOverflows(LeftOperand, RightOperand)
            \/ Did("I32Mul") /\ MulOverflows(LeftOperand, RightOperand))

C25_MemoryTenCells ==
    /\ steps = 0 =>
          /\ memory = [cell \in 1..10 |-> 0]
          /\ stack = init_stack
          /\ host_calls = <<>>
    /\ Len(memory) = 10
    /\ Len(before.memory) = 10

\* The counting loop has stored 0, 1 and 2 into cell 0.
C25_Witness ==
    /\ status = "done"
    /\ code = CountingLoop(2)
    /\ init_stack = <<>>
    /\ memory[1] = 2
    /\ Len(memory) = 10
    /\ steps > 20

\* The last step was taken by an invoke, inside its for loop, of the body.
Invoked(body) ==
    /\ steps > 0
    /\ before.status = "running"
    /\ before.flow = CfExec
    /\ Top(before).code = body

\* The last step changed nothing but the control flow the invoke returns.
OnlyReturned(control_flow) ==
    /\ status = "running"
    /\ flow = control_flow
    /\ stack = before.stack
    /\ memory = before.memory
    /\ host_calls = before.host_calls
    /\ frames = before.frames

\* C26: the invoke of an empty body returns no control flow and leaves
\* stack, memory and locals as they were; the invoke of a body that is a
\* single Return returns Return and leaves the stack as it was.
C26_BoundaryBodies ==
    /\ Invoked(<<>>) => OnlyReturned(CfNone)
    /\ Invoked(<<Return>>) => OnlyReturned(CfReturn)
    /\ status # "running" /\ code = <<>> =>
          /\ status = "done"
          /\ result = CfNone
          /\ stack = init_stack
          /\ memory = ZeroMemory
          /\ host_calls = <<>>
          /\ before.frames[1].locals = locals
    /\ status # "running" /\ code = <<Return>> =>
          /\ status = "done"
          /\ result = CfReturn
          /\ stack = init_stack
          /\ memory = ZeroMemory

\* The empty body on a stack of two values.
C26_Witness ==
    /\ status = "done"
    /\ code = <<>>
    /\ init_stack = <<5, 3>>
    /\ stack = <<5, 3>>
    /\ result = CfNone
    /\ steps = 2

\* The invokes that were running before the last step and still are.
Surviving ==
    1..(IF Len(frames) < Len(before.frames) THEN Len(frames)
        ELSE Len(before.frames))

\* C27: the interpreter never grows or shrinks the locals it is passed:
\* during and after any execution, with calls of module functions and of
\* host functions, the caller's locals have the length and the contents
\* they had, since a callee runs on a new frame made of its arguments.
C27_LocalsKept ==
    /\ status = "running" => frames[1].locals = locals
    /\ status # "running" => before.frames[1].locals = locals
    /\ \A i \in Surviving : frames[i].locals = before.frames[i].locals
    /\ \A i \in 2..Len(frames) :
          frames[i].kind \in {"Block", "Loop"} =>
              frames[i].locals = frames[i - 1].locals
    /\ Did("Call") /\ status = "running" /\ CalledIndex < Len(module_functions) =>
          /\ Len(frames) = Len(before.frames) + 1
          /\ Top(Machine).kind = "Call"
          /\ Top(Machine).locals =
                Arguments(module_functions[CalledIndex + 1].param_count)

\* The function of two parameters was called on 5 and 3 and has returned.
C27_Witness ==
    /\ status = "done"
    /\ code = <<Call(1)>>
    /\ module_functions = DefaultFuncs
    /\ init_stack = <<5, 3>>
    /\ stack = <<2>>
    /\ locals = <<42, 7>>
    /\ before.frames[1].locals = <<42, 7>>

\* The stack delta of an instruction without a call: +1 for the pushes,
\* -1 for I32Store, BranchIf and the binary operators, 0 for the rest.
Delta(instruction) ==
    CASE instruction.op \in {"I32Const", "I32Load", "LocalGet"} -> 1
      [] instruction.op \in {"I32Store", "BranchIf"} \cup BinaryOps -> -1
      [] OTHER -> 0

\* The sum of the deltas of the instructions a machine executes from m on,
\* in at most fuel steps.
RECURSIVE ExecutedDelta(_, _)
ExecutedDelta(m, fuel) ==
    IF fuel = 0 \/ m.status # "running" THEN 0
    ELSE (IF AtInstruction(m) THEN Delta(Current(m)) ELSE 0)
            + ExecutedDelta(Step(m), fuel - 1)

\* The machine at the start of the run of the program.
Started == Start(code, init_stack, ZeroMemory, locals)

\* No instruction of the body, at any depth, is a Call.
RECURSIVE CallFree(_)
CallFree(body) ==
    \A i \in DOMAIN body : body[i].op # "Call" /\ CallFree(body[i].body)

\* C28: when the control flow of a body does not leave it by Return or by
\* a Branch past its nesting, the height of the stack after the execution
\* less the height before is the sum of the deltas of the instructions
\* executed; a branch out of a Block or Loop leaves what was pushed inside
\* on the stack.
C28_StackDelta ==
    /\ status = "done" /\ result = CfNone /\ CallFree(code) =>
          Len(stack) - Len(init_stack) = ExecutedDelta(Started, MaxSteps)
    /\ steps > 0 /\ status = "running" /\ ~AtInstruction(before) =>
          stack = before.stack
    /\ /\ steps > 0
       /\ status = "running"
       /\ AtInstruction(before)
       /\ Current(before).op # "Call"
       => Len(stack) - Len(before.stack) = Delta(Current(before))

\* Branch(0) left the Block after the push of 43, which is still there.
C28_Witness ==
    /\ status = "done"
    /\ result = CfNone
    /\ code = <<I32Const(42), Block(<<I32Const(43), Branch(0)>>), I32Const(45)>>
    /\ stack = <<42, 43, 45>>
    /\ ExecutedDelta(Started, MaxSteps) = 3

\* The last step ran a Branch in a body that no call has been made from:
\* every invoke above the outermost one is that of a Block or Loop.
BranchTaken ==
    /\ Did("Branch")
    /\ \A i \in 2..Len(frames) : frames[i].kind \in {"Block", "Loop"}

\* The Blocks and Loops the Branch is nested in, and its label.
Nesting == Len(frames) - 1

Label == Current(before).arg

\* The frames once the innermost exited invokes are gone.
Outside(exited) == SubSeq(frames, 1, Len(frames) - exited)

\* C29: a Branch(k) inside d nested Blocks and Loops, k < d, leaves the k
\* innermost of them and ends at the next one: a Block is over and the
\* instruction after it is next, a Loop starts its body again; nothing of
\* what follows in the bodies left runs.  With k >= d the outermost invoke
\* returns Branch(k - d).
C29_BranchDistance ==
    BranchTaken =>
        /\ flow = CfBranch(Label)
        /\ frames = before.frames
        /\ IF Label < Nesting
           THEN LET target == frames[Len(frames) - Label]
                    landed == Run(Machine, Label + 1)
                IN  /\ landed.status = "running"
                    /\ landed.flow = CfExec
                    /\ landed.stack = stack
                    /\ landed.memory = memory
                    /\ landed.host_calls = host_calls
                    /\ landed.frames =
                          IF target.kind = "Block"
                          THEN [Outside(Label + 1) EXCEPT
                                   ![Len(frames) - Label - 1].pc = @ + 1]
                          ELSE [Outside(Label) EXCEPT
                                   ![Len(frames) - Label].pc = 1]
           ELSE LET returned == Run(Machine, Nesting + 1)
                IN  /\ returned.status = "done"
                    /\ returned.result = CfBranch(Label - Nesting)
                    /\ returned.stack = stack
                    /\ returned.memory = memory
                    /\ returned.host_calls = host_calls

\* A Branch(1) inside a Block inside a Loop inside a Block has been taken:
\* the Loop is its target.
C29_Witness ==
    /\ BranchTaken
    /\ Label = 1
    /\ Nesting = 3
    /\ frames[2].kind = "Block"
    /\ frames[3].kind = "Loop"
    /\ frames[4].kind = "Block"
    /\ Run(Machine, 2).frames = [Outside(1) EXCEPT ![3].pc = 1]
    /\ stack = <<42>>


\* The header of the last section read holds an id byte above 11.
UnknownId ==
    /\ SectionReturned
    /\ last_section.header.r = "Ok"
    /\ LastId > 11

SkippedIds == {0, 4, 8, 9, 11}

\* The sections read without those of the skipped ids.
WithoutSkipped ==
    SelectSeq(sections,
              LAMBDA section :
                  section.variant \notin {SectionNames[id + 1] : id \in SkippedIds})

\* C32: a section with id 0, 4, 8, 9 or 11 is returned without its bytes
\* being decoded, the cursor moved forward from behind the header by the
\* declared size; and the Module that Module::parse returns is the Module
\* of the other sections alone.
C32_SkippedSections ==
    /\ SectionReturned /\ last_section.header.r = "Ok" /\ LastId \in SkippedIds =>
          /\ last_section.r = "Ok"
          /\ last_section.stop = last_section.header.pos + LastSize
          /\ stream_position = last_section.stop
          /\ Last(sections) = [variant |-> SectionNames[LastId + 1], v |-> <<>>]
    /\ parsed.r = "Ok" =>
          parsed.v = Module(parsed.v.preamble, WithoutSkipped)

\* A Custom section of the bytes 0xFF 0x01 0x02, which are no vector of
\* anything, before a Type section.
C32_Witness ==
    /\ parsed.r = "Ok"
    /\ Len(file) > 13
    /\ SubSeq(file, 9, 13) = <<0, 3, 255, 1, 2>>
    /\ Len(sections) = 2
    /\ sections[1] = [variant |-> "Custom", v |-> <<>>]
    /\ sections[2].variant = "Type"
    /\ Len(parsed.v.types) = 1
    /\ parsed.v.types = sections[2].v

\* The variants of the two descriptors by descriptor byte.
DescriptorNames == <<"Func", "Table", "Memory", "Global">>

\* What the parser of a descriptor returns at pos for the descriptor byte
\* tag is as the table says; text is the message of the parser.
DescriptorAsTable(returned, tag, pos, text) ==
    IF tag \in 0..3
    THEN /\ returned.r = "Ok" => returned.v.variant = DescriptorNames[tag + 1]
         /\ returned.r = "Err" => returned.v.text # text
    ELSE returned = Err(text, tag, pos + 1)

\* Read at the byte tag at pos, the parsers of the tagged types return what
\* the tables say.
TagAsTable(pos) ==
    LET tag == file[pos + 1]
        func_type == ParseFuncType(pos)
    IN  /\ ParseValueType(pos) =
              CASE tag = 127 -> Ok("I32", pos + 1)
                [] tag = 126 -> Ok("I64", pos + 1)
                [] tag = 125 -> Ok("F32", pos + 1)
                [] tag = 124 -> Ok("F64", pos + 1)
                [] OTHER -> Err("Invalid value type encountered", tag, pos + 1)
        /\ ParseMutability(pos) =
              CASE tag = 0 -> Ok("Constant", pos + 1)
                [] tag = 1 -> Ok("Variable", pos + 1)
                [] OTHER -> Err("Invalid mutability", tag, pos + 1)
        /\ DescriptorAsTable(ParseImportDescriptor(pos), tag, pos,
                             "Invalid import descriptor type")
        /\ DescriptorAsTable(ParseExportDescriptor(pos), tag, pos,
                             "Invalid export descriptor type")
        /\ IF tag = 96
           THEN func_type.r = "Err" =>
                    func_type.v.text # "Invalid marker found for FuncType"
           ELSE func_type = Err("Invalid marker found for FuncType", tag, pos + 1)

\* The messages of the errors for a tag byte outside its set.
TagErrors ==
    {"Invalid value type encountered", "Invalid mutability",
     "Invalid import descriptor type", "Invalid export descriptor type",
     "Invalid marker found for FuncType"}

\* C33: at every byte of the file the parsers of ValueType, Mutability,
\* ImportDescriptor, ExportDescriptor and FuncType return Err(message) with
\* the byte when it is outside the set of the type, and i32/i64/f32/f64,
\* const/var and Func/Table/Memory/Global for the bytes inside; and when
\* Section::parse returns such an Err, Module::parse returns it with the
\* tag byte, the byte just before the cursor, and returns no Module.
C33_TagBytes ==
    /\ \A pos \in 0..(Len(file) - 1) : TagAsTable(pos)
    /\ SectionReturned /\ last_section.r = "Err" =>
          /\ parsed.r = "Err"
          /\ parsed.v = ParseSection(last_section.at).v
          /\ parsed.v.text \in TagErrors =>
                /\ parsed.v.value = file[stream_position]
                /\ ~(/\ parsed.v.text = "Invalid value type encountered"
                      /\ parsed.v.value \in 124..127)
                /\ ~(/\ parsed.v.text = "Invalid mutability"
                      /\ parsed.v.value \in 0..1)
                /\ ~(/\ parsed.v.text \in {"Invalid import descriptor type",
                                            "Invalid export descriptor type"}
                      /\ parsed.v.value \in 0..3)
                /\ ~(/\ parsed.v.text = "Invalid marker found for FuncType"
                      /\ parsed.v.value = 96)

\* A Global section whose only global is an i32 of mutability 2.
C33_Witness ==
    /\ SectionReturned
    /\ last_section.r = "Err"
    /\ LastId = 6
    /\ parsed = Failed([text |-> "Invalid mutability", value |-> 2])
    /\ file[stream_position] = 2
    /\ file[stream_position - 1] = 127

\* C34: Vec<Instruction>::parse, called for a body that is not the
\* then-body of an If, returns the body only at its 0x0B: the byte before
\* the cursor is 0x0B, never the else sentinel 0x05.
C34_ElseEndsOnlyThen ==
    parsed.of = "Vec<Instruction>" /\ parsed.r = "Ok" =>
        file[stream_position] = 11

\* C35: when a module function is called, the locals of the callee are its
\* parameters followed by its declared locals: as many as param_count plus
\* the locals its Code declares, the first param_count of them the
\* arguments.
C35_CalleeLocals ==
    Did("Call") /\ status = "running" /\ CalledIndex < Len(module_functions) =>
        LET func == module_functions[CalledIndex + 1]
        IN  /\ Len(Top(Machine).locals) = func.param_count + func.local_count
            /\ SamePrefix(Top(Machine).locals, Arguments(func.param_count),
                          func.param_count)

\* The last step was the return of Func::call for the Call that is the
\* first instruction of the program.
FirstCallReturned ==
    /\ steps > 0
    /\ Returned(before, "Call")
    /\ Len(before.frames) = 2
    /\ before.frames[1].pc = 1
    /\ code # <<>>
    /\ code[1].op = "Call"
    /\ code[1].arg < Len(module_functions)

\* The function that Call called.
FirstCalled == module_functions[code[1].arg + 1]

\* The body of the called function run on its own: on its arguments as
\* locals, from an empty stack.
CalleeAlone ==
    Run(Start(FirstCalled.body, <<>>, ZeroMemory,
              SplitOff(init_stack, FirstCalled.param_count)),
        MaxSteps)

FieldVariants ==
    [types |-> "Type", imports |-> "Import", functions |-> "Function",
     memories |-> "Memory", globals |-> "Global", exports |-> "Export",
     codes |-> "Code"]

\* The places of the sections of a variant among the sections read.
PlacesOf(variant) == {i \in DOMAIN sections : sections[i].variant = variant}

\* The files made of the preamble and sections that are as their headers
\* say, in every order and with repetitions.
WellFormedFiles ==
    {PreambleBytes \o Concat(seq) : seq \in SeqsUpTo(GoodSections, MaxSections)}
    \cup {PreambleBytes \o first \o SectionBytes(1, <<0>>) \o second :
            first \in FunctionSections, second \in FunctionSections}

\* C37: Module::parse returns a Module for well-formed sections in any
\* order and with any repetition; each field of the Module is the
\* contents of the last section of its id in the file, and the empty
\* sequence when the file has no section of that id.
C37_LastSectionWins ==
    /\ parsed.r \in {"Err", "Panic"} => file \notin WellFormedFiles
    /\ parsed.r = "Ok" =>
          \A field \in DOMAIN FieldVariants :
              LET places == PlacesOf(FieldVariants[field])
              IN  parsed.v[field] =
                      IF places = {} THEN <<>>
                      ELSE sections[CHOOSE i \in places :
                                        \A j \in places : j <= i].v

\* Function sections of one and of two indices around an empty Type
\* section; no other section.
C37_Witness ==
    /\ parsed.r = "Ok"
    /\ Len(sections) = 3
    /\ sections[1] = [variant |-> "Function", v |-> <<0>>]
    /\ sections[2] = [variant |-> "Type", v |-> <<>>]
    /\ sections[3] = [variant |-> "Function", v |-> <<1, 0>>]
    /\ parsed.v.functions = <<1, 0>>
    /\ parsed.v.types = <<>>
    /\ parsed.v.codes = <<>>

\* Module::parse has returned or the process has ended by a panic.
Ended == parsed.r \in {"Ok", "Err", "Panic"}

\* The types that are elements of a vector, the readers of integers and
\* the instruction body.
LoopedKinds ==
    {"u8", "u32", "i32", "ValueType", "FuncType", "Import", "TypeIdx",
     "MemType", "Global", "Export", "Code", "Locals", "Vec<Instruction>"}

\* A parser started at pos leaves the cursor at pos or behind it, behind it
\* when it returns a value; started at the end of the file or behind it,
\* it returns Eof.
Consumes(returned, pos) ==
    /\ returned.pos >= pos
    /\ returned.r = "Ok" => returned.pos > pos
    /\ pos >= Len(file) => returned.r = "Eof"

\* Every iteration of the loops of the decoder moves the cursor forward or
\* ends the loop: the section loop, the element loop of a vector, the
\* LEB128 loops and the loop of an instruction body.
LoopsConsume ==
    /\ SectionReturned =>
          /\ last_section.stop >= last_section.at
          /\ last_section.r = "Ok" => last_section.stop > last_section.at
          /\ last_section.at >= Len(file) => last_section.r = "Eof"
    /\ \A pos \in 0..(Len(file) + 1) :
          /\ \A kind \in LoopedKinds : Consumes(ParseItem(kind, pos), pos)
          /\ Consumes(ParseSection(pos), pos)

\* C38: Module::parse ends on every file, with Ok, with Err or by a panic:
\* every iteration of its loops moves the cursor forward or ends the loop,
\* a read at or behind the end of the file returns Eof, and the section
\* loop ends at Eof.
C38_Terminates == []LoopsConsume /\ <>Ended

\* A Type section that announces 255 function types and ends after the
\* marker of the first: the section loop has ended at Eof.
C38_Witness ==
    /\ Ended
    /\ file = PreambleBytes \o <<1, 5, 255, 96>>
    /\ last_section.r = "Eof"
    /\ last_section.at = 8
    /\ stream_position = Len(file)

\* Every instruction of the body, at any depth, is one that both
\* interpreters have: the fourteen of lib.rs.
RECURSIVE InBoth(_)
InBoth(body) ==
    \A i \in DOMAIN body : body[i].op \in SupportedOps /\ InBoth(body[i].body)

\* Machine::execute of lib.rs on the program, from the stack, the memory
\* and the locals that invoke started from.
Executed ==
    ExecuteFrom(AsLibCode(code), 1, locals,
                [stack |-> init_stack, memory |-> ZeroMemory,
                 host_calls |-> <<>>, status |-> "running", fuel |-> MaxSteps,
                 returned |-> LibNone])

\* The Option<ControlFlow> of lib.rs as that of vm.rs: Break is Branch.
AsControlFlow(returned) ==
    CASE returned.t = "Break" -> CfBranch(returned.n)
      [] returned.t = "Return" -> CfReturn
      [] OTHER -> CfNone

\* C39: for a program and module functions built from the fourteen
\* instructions both interpreters have, when invoke of vm.rs has returned,
\* execute of lib.rs returns from the same start with the same stack, the
\* same memory, the same host calls and the same control flow; and when
\* invoke panics, so does execute.
C39_InterpretersAgree ==
    /\ InBoth(code)
    /\ \A i \in DOMAIN module_functions : InBoth(module_functions[i].body)
    => /\ status = "done" =>
             /\ Executed.status = "running"
             /\ Executed.stack = stack
             /\ Executed.memory = memory
             /\ Executed.host_calls = host_calls
             /\ AsControlFlow(Executed.returned) = result
       /\ status = "panic" => Executed.status = "panic"

\* Break(2) in a Loop in a Block after a host call: both return Branch(0).
C39_Witness ==
    /\ status = "done"
    /\ InBoth(code)
    /\ result = CfBranch(0)
    /\ Executed.returned = LibBreak(0)
    /\ Executed.stack = stack
    /\ stack # <<>>
    /\ \E i \in DOMAIN code : code[i].op = "Block"

=============================================================================
